---- MODULE Spec2Model ----
(***************************************************************************)
(* Model of the gemini-daemon gateway: the Upstream Client                 *)
(* (daemon/src/services/gemini-client.ts), the Streaming Transformer       *)
(* (streaming/sse-transformer.ts) driven through a WHATWG ReadableStream,  *)
(* the chat-completions route with its stream pump, the Auth Manager       *)
(* (startup resolution, code exchange, logout), the quota fetch and its    *)
(* cached route, and the request and response adapters.                    *)
(***************************************************************************)
EXTENDS Integers, Sequences, FiniteSets, TLC

VARIABLES
    mode,           \* "generate" (generateContent) or "stream" (generateContentStream)
    cpc,            \* position of the upstream call / generator body
    attempt,        \* fetchWithRetry: loop variable
    calls,          \* number of fetch() requests issued by this call
    responses,      \* statuses of the responses received, in order
    res,            \* the Response fetchWithRetry returned: [status, body]
    callError,      \* error thrown by the call: [thrown, status, message] (status 0: none set)
    result,         \* value generateContent resolved with
    bodyLocked,     \* generateContentStream holds the HTTP body reader
    started,        \* ReadableStream controller [[started]]
    pulling,        \* controller [[pulling]]
    pullAgain,      \* controller [[pullAgain]]
    closeRequested, \* controller [[closeRequested]]
    sstate,         \* stream [[state]]: "readable", "closed", "errored"
    queue,          \* controller [[queue]]
    readPending,    \* the pump's reader has an unanswered read request
    sentRole,       \* createSSEStream: let sentRole
    toolCallIndex,  \* createSSEStream: let toolCallIndex
    emitted,        \* every frame handed to controller.enqueue, in order
    nextCalls,      \* number of stream.next() calls made by pull
    yielded,        \* number of partials the generator has yielded
    ppc,            \* pump position: "ready", "waiting", "writing", "exited"
    received,       \* values reader.read() returned to the pump, in order
    gotEnd,         \* reader.read() returned done to the pump
    pumpFailed,     \* the pump left its loop by an exception
    disconnected,   \* the downstream client has gone away
    rpc,            \* route handler position: "recv", "awaiting", "streaming", "answered", "faulted"
    req,            \* the POST body the handler was given
    response,       \* the HTTP response the handler returned
    recorded,       \* recordRequest calls made for this request
    proc,           \* the daemon process: "starting", "serving", "exited"
    spc,            \* position of resolveAuth at startup
    auth,           \* the live AuthState (AuthContainer.current)
    keychain,       \* content of the secure store ("absent" or a token record id)
    xpc,            \* position of the /auth/callback handler
    xtokens,        \* tokens the code exchange returned
    xload,          \* what the project lookup of this exchange was answered
    xwrote,         \* this exchange has written the secure store
    logouts,        \* POST /auth/logout requests handled
    logoutStatus,   \* status of the last logout response (0: none yet)
    creds,          \* <<client, project id>> the request's client captured
    qpc,            \* fetchQuota: "call" or "returned"
    buckets,        \* fetchQuota: data.buckets of the retrieveUserQuota answer
    quotas,         \* fetchQuota: the QuotaInfo list it returned
    qnow,           \* Date.now(), in milliseconds
    cache,          \* quotaRoute: let cache
    qpending,       \* GET /quota handlers suspended at await fetchQuota
    qresp,          \* the last response of GET /quota
    fetches,        \* fetchQuota calls made by the route
    arrivals,       \* GET /quota requests that have arrived
    apc,            \* buildRequestBody: "call" or "returned"
    messages,       \* buildRequestBody: req.messages
    gbody,          \* buildRequestBody: the GeminiRequestBody it returned
    vpc,            \* convertResponse: "call" or "returned"
    geminiResponse, \* convertResponse: its argument
    completion,     \* convertResponse: choices[0] of the completion it returned
    opc,            \* resolveAuthOptional: "readStore", "readFile", "validate", "project", "done"
    osource,        \* resolveAuthOptional: where the credentials in hand were read
    otrail,         \* resolveAuthOptional: the sources consulted, in order
    owrote,         \* resolveAuthOptional: the secure store was written (migration)
    issued,         \* authRoutes: the state values GET /auth/start issued that are still pending
    kpc,            \* GET /auth/callback: "idle" or "exchanging" (awaiting completeOAuthFlow)
    kquery,         \* GET /auth/callback: the query of the last request
    kstatus,        \* GET /auth/callback: status of the last answer (0: none yet)
    kauth,          \* GET /auth/callback: the AuthState when the last request arrived
    kexchanges,     \* completeOAuthFlow calls made by the callback handler
    lstream,        \* generateContentStream: the decoded text of the whole response body
    lpos,           \* generateContentStream: how much of it reader.read() has delivered
    lbuffer,        \* generateContentStream: buffer
    llines,         \* generateContentStream: lines of the current read not yet looked at
    lyielded,       \* generateContentStream: the partials yielded, in order
    lpc,            \* generateContentStream: "read", "lines", "tail" or "returned"
    llocked,        \* generateContentStream: the body reader is held
    lsawDone,       \* generateContentStream: returned at a [DONE] line
    wpc,            \* client calls on the wire: "idle", "auth", "fetch" or "sleep"
    wcall,          \* number of generateContent / generateContentStream calls begun
    wargs,          \* arguments of the current call: [stream, model, body]
    wheaders,       \* headers of the current call: its bearer token ("none": not built)
    wattempt,       \* fetchWithRetry: attempt
    wasked,         \* answers of oauth2Client.getAccessToken(), one per request for a token
    wwire,          \* the upstream requests sent, in order
    wwaits,         \* the sleeps of the current call: [attempt, ms]
    wproject,       \* auth.projectId the client was made with
    mtask,          \* StreamingClient: task (0: nil), the number of the send that made it
    mstate,         \* URLSession: each task "unsent", "running", "cancelling" or "finished"
    mscript,        \* URLSession: the data each task has still to deliver
    mcancelled,     \* the tasks cancel() was called on while they ran
    mbuffer,        \* StreamingClient: buffer, as the lines in it
    mcompleted,     \* StreamingClient: completed
    mcurrent,       \* StreamingClient: currentAssistantResponse, as its number of tokens
    mmessages,      \* StreamingClient: messages
    mevents,        \* the onComplete and onError callbacks dispatched, in order
    msends          \* number of send() calls

clientVars == <<mode, cpc, attempt, calls, responses, res, callError, result, bodyLocked>>
ctrlVars == <<started, pulling, pullAgain, closeRequested, sstate, queue, readPending>>
xformVars == <<sentRole, toolCallIndex, emitted, nextCalls, yielded>>
pumpVars == <<ppc, received, gotEnd, pumpFailed, disconnected>>
routeVars == <<rpc, req, response, recorded>>
authVars == <<proc, spc, auth, keychain, xpc, xtokens, xload, xwrote, logouts,
               logoutStatus, creds>>
quotaVars == <<qpc, buckets, quotas, qnow, cache, qpending, qresp, fetches, arrivals>>
adapterVars == <<apc, messages, gbody, vpc, geminiResponse, completion>>
resolveVars == <<opc, osource, otrail, owrote>>
callbackVars == <<issued, kpc, kquery, kstatus, kauth, kexchanges>>
lineVars == <<lstream, lpos, lbuffer, llines, lyielded, lpc, llocked, lsawDone>>
wireVars == <<wpc, wcall, wargs, wheaders, wattempt, wasked, wwire, wwaits, wproject>>
menubarVars == <<mtask, mstate, mscript, mcancelled, mbuffer, mcompleted, mcurrent, mmessages,
                 mevents, msends>>
lateVars == <<callbackVars, lineVars, wireVars, menubarVars>>
sideVars == <<quotaVars, adapterVars, resolveVars, lateVars>>
vars == <<clientVars, ctrlVars, xformVars, pumpVars, routeVars, authVars, sideVars>>

----------------------------------------------------------------------------
(* Bounds of the model and constants of the program.                        *)

MAX_RETRIES == 3

\* Longest upstream partial sequence explored.
MaxPartials == 3

\* 429 answers explored ahead of a streamed body.
StreamRateLimits == 1

\* Most function-call parts carried by one partial.
MaxCalls == 1

\* HTTP statuses the upstream may answer with.
Statuses == {200, 400, 401, 403, 404, 429, 500, 503}

\* Inner responses the upstream may wrap in its envelope.
Bodies == {"r1", "r2"}

\* Finish reasons a candidate may carry ("" is an absent finishReason).
FinishInputs == {"", "STOP", "SAFETY", "BOGUS"}

\* Joined text of a partial's text parts ("" when there are none).
TextInputs == {"", "Hi"}

Partials == [fc : 0..MaxCalls, text : TextInputs, finishReason : FinishInputs]

\* CloudCodeResponse: the envelope the backend wraps a response in.
Envelope(b) == [response |-> b, traceId |-> "t"]

NoRes == [status |-> 0, body |-> Envelope(""), hasBody |-> FALSE]
\* An error value: status and code are 0, message <<>>, where the field is
\* not set on the error object.
NoError == [thrown |-> FALSE, status |-> 0, code |-> 0, message |-> <<>>]

\* POST bodies: whether the text parses as JSON, what its messages field is,
\* and the arguments string of an assistant tool_call in it, if any.
Requests ==
    [json : BOOLEAN,
     messages : {"missing", "notArray", "array"},
     toolArgs : {"none", "valid", "invalid"}]

NoRequest == [json |-> FALSE, messages |-> "missing", toolArgs |-> "none"]

NoResponse == [status |-> 0, contentType |-> "none", body |-> [none |-> TRUE]]

\* AuthState: the two shapes of AuthContainer.current.
Unauthenticated ==
    [status |-> "unauthenticated", oauth2Client |-> "null", projectId |-> "null",
     method |-> "none"]

Authenticated(client, project) ==
    [status |-> "authenticated", oauth2Client |-> client, projectId |-> project,
     method |-> "gemini-cli-oauth"]

\* No AuthState has been constructed yet (the daemon is starting).
Unresolved ==
    [status |-> "unresolved", oauth2Client |-> "null", projectId |-> "null",
     method |-> "none"]

\* Token records a code exchange may return; "t0" is the record of the
\* credentials file read at startup.
TokenIds == {"t1"}

NoTokens == [refresh_token |-> FALSE, id |-> "null"]

\* Answers to one loadProjectId: whether a token was obtained, whether
\* loadCodeAssist answered ok, the project the backend named and the project
\* of the environment ("null": none).
ProjectLookups ==
    {l \in [token : BOOLEAN, ok : BOOLEAN, backend : {"null", "p1"},
            env : {"null", "pEnv"}] :
        /\ ~l.token => ~l.ok
        /\ ~l.ok => l.backend = "null"}

NoLookup == [token |-> FALSE, ok |-> FALSE, backend |-> "null", env |-> "null"]

\* Most logouts explored.
MaxLogouts == 2

\* Most send() calls on one StreamingClient.
MaxSends == 2

\* Most calls made on one client.
MaxClientCalls == 2

\* Most code exchanges started by GET /auth/callback.
MaxExchanges == 2

\* 429 answers explored for the request that runs beside the Auth Manager.
AuthRateLimits == 1

\* quotaRoute: lifetime of the cached quota list, in milliseconds.
CACHE_TTL == 60000

\* Model ids, as sequences of pieces so that a `_vertex` suffix can be told
\* from a `_vertex` elsewhere in the id.
ModelIds == {<<"m">>, <<"m", "_vertex">>, <<"_vertex", "n">>, <<"unknown">>}

\* A bucket without modelId.
NoModelId == <<>>

\* remainingFraction values, in thousandths.
Fractions == {504, 506, 800}

QuotaBuckets == [modelId : ModelIds \cup {NoModelId}, remainingFraction : Fractions]

\* The longest bucket list of a retrieveUserQuota answer.
MaxBuckets == 3

BucketLists == UNION {[1..n -> QuotaBuckets] : n \in 0..MaxBuckets}

\* quotaRoute: cache is null.
NoCache == [set |-> FALSE, data |-> <<>>, ts |-> 0]

NoQuotaResponse == [status |-> 0, quotas |-> <<>>, error |-> FALSE]

\* Amounts by which the clock moves between two events, in milliseconds.
Advances == {CACHE_TTL - 1, CACHE_TTL}

\* The clock stops advancing past this many lifetimes.
MaxLifetimes == 2

\* GET /quota requests of one run, and how many may await fetchQuota at once.
MaxArrivals == 3
MaxPending == 2

\* Texts, as sequences of pieces so that they can be joined; "\n" is the
\* newline.
Texts == {<<>>, <<"A">>, <<"B">>}

\* A content that is null or undefined, a string, or an array of parts (here
\* a text part, an image part and a text part).
NullContent == [kind |-> "null", text |-> <<>>, parts |-> <<>>]
StringContent(t) == [kind |-> "string", text |-> t, parts |-> <<>>]
PartsContent ==
    [kind |-> "parts", text |-> <<>>,
     parts |-> <<[type |-> "text", text |-> <<"A">>],
                 [type |-> "image_url", text |-> <<>>],
                 [type |-> "text", text |-> <<>>],
                 [type |-> "text", text |-> <<"B">>]>>]

\* The messages of a ChatRequest: role, content, and the number of
\* tool_calls (each with arguments that parse).
OpenAIMessages ==
    [role : {"system"}, content : {NullContent, PartsContent} \cup {StringContent(t) : t \in Texts},
     tool_calls : {0}]
    \cup [role : {"user"}, content : {NullContent, StringContent(<<"A">>)}, tool_calls : {0}]
    \cup [role : {"assistant"}, content : {StringContent(<<>>), StringContent(<<"A">>)},
          tool_calls : {0, 1}]
    \cup [role : {"tool"}, content : {StringContent(<<"A">>)}, tool_calls : {0}]

\* The longest req.messages.
MaxMessages == 3

MessageLists == UNION {[1..n -> OpenAIMessages] : n \in 1..MaxMessages}

\* let systemInstruction: string | undefined
Undefined == [defined |-> FALSE, text |-> <<>>]
Defined(t) == [defined |-> TRUE, text |-> t]

NoBody == [contents |-> <<>>, systemInstruction |-> Undefined]

\* The parts of a candidate: text and functionCall, each present or not.
GeminiPart(hasText, text, hasCall, name) ==
    [hasText |-> hasText, text |-> text, hasCall |-> hasCall, name |-> name]

GeminiParts ==
    {GeminiPart(FALSE, <<>>, FALSE, "none"),
     GeminiPart(TRUE, <<>>, FALSE, "none"),
     GeminiPart(TRUE, <<"H">>, FALSE, "none"),
     GeminiPart(FALSE, <<>>, TRUE, "f"),
     GeminiPart(FALSE, <<>>, TRUE, "g"),
     GeminiPart(TRUE, <<"H">>, TRUE, "f")}

\* The longest parts list of a candidate.
MaxParts == 2

PartLists == UNION {[1..n -> GeminiParts] : n \in 0..MaxParts}

\* candidate.finishReason: "" when absent.
ReasonInputs ==
    {"", "STOP", "MAX_TOKENS", "SAFETY", "RECITATION", "LANGUAGE", "BLOCKLIST",
     "PROHIBITED_CONTENT", "SPII", "MALFORMED_FUNCTION_CALL", "OTHER", "BOGUS", "constructor"}

\* A candidate at an index above 0.
LaterCandidate ==
    [parts |-> <<GeminiPart(TRUE, <<"X">>, TRUE, "g")>>, finishReason |-> "MAX_TOKENS"]

\* geminiResponse values: no candidates, or one candidate, or one followed by
\* LaterCandidate.
GeminiResponses ==
    {[candidates |-> <<>>]}
    \cup {[candidates |-> <<c>> \o rest] :
            c \in [parts : PartLists, finishReason : ReasonInputs],
            rest \in {<<>>, <<LaterCandidate>>}}

\* message.content: null or a string.
Null == [isNull |-> TRUE, text |-> <<>>]
Str(t) == [isNull |-> FALSE, text |-> t]

NoChoice == [content |-> Null, tool_calls |-> [defined |-> FALSE, calls |-> <<>>],
             finish_reason |-> "none"]

----------------------------------------------------------------------------
(* Streaming Transformer: pure parts of createSSEStream.pull.               *)

FINISH_REASON_MAP ==
    [r \in {"STOP", "MAX_TOKENS", "SAFETY", "RECITATION", "LANGUAGE", "BLOCKLIST",
            "PROHIBITED_CONTENT", "SPII", "MALFORMED_FUNCTION_CALL", "OTHER"} |->
        CASE r = "STOP" -> "stop"
          [] r = "MAX_TOKENS" -> "length"
          [] r \in {"SAFETY", "RECITATION", "LANGUAGE", "BLOCKLIST",
                    "PROHIBITED_CONTENT", "SPII"} -> "content_filter"
          [] OTHER -> "stop"]

\* Names that FINISH_REASON_MAP, an object literal, inherits from
\* Object.prototype; looked up, each gives a function or an object.
ObjectPrototypeKeys == {"constructor", "toString", "valueOf", "hasOwnProperty", "__proto__"}

\* What such a lookup gives: neither null nor a string.
Inherited == "[inherited]"

\* mapFinishReason: "null" stands for the null result, "" for a reason that
\* is absent (or empty).
mapFinishReason(reason) ==
    IF reason = "" THEN "null"
    ELSE IF reason \in DOMAIN FINISH_REASON_MAP THEN FINISH_REASON_MAP[reason]
    ELSE IF reason \in ObjectPrototypeKeys THEN Inherited
    ELSE "stop"

\* The tool_calls delta chunk of a partial with function calls (lines 55-86).
ToolCallsChunk(p, src, role, tci) ==
    [kind |-> "tool_calls", role |-> ~role, content |-> "",
     finish_reason |-> "null", src |-> src,
     tool_calls |-> [i \in 1..p.fc |-> tci + (i - 1)]]

\* The content delta chunk of a partial with text (lines 94-113).
ContentChunk(p, src, role) ==
    [kind |-> "content", role |-> ~role, content |-> p.text,
     finish_reason |-> "null", src |-> src, tool_calls |-> <<>>]

\* Variant of FinishChunk: the mapped reason without the tool_calls override.
FinishChunkNoOverride(p, src, tci) ==
    [kind |-> "finish", role |-> FALSE, content |-> "",
     finish_reason |-> mapFinishReason(p.finishReason),
     src |-> src, tool_calls |-> <<>>]

\* The finish chunk (lines 116-132): empty delta, overridden finish reason.
FinishChunk(p, src, tci) ==
    [kind |-> "finish", role |-> FALSE, content |-> "",
     finish_reason |-> IF tci > 0 THEN "tool_calls" ELSE mapFinishReason(p.finishReason),
     src |-> src, tool_calls |-> <<>>]

\* The literal "data: [DONE]" frame (line 45).
DoneFrame ==
    [kind |-> "done", role |-> FALSE, content |-> "", finish_reason |-> "null",
     src |-> 0, tool_calls |-> <<>>]

\* Variant of PullFrames: the finish chunk enqueued ahead of the content chunk.
PullFramesFinishFirst(p, src, role, tci) ==
    IF p.fc > 0
    THEN <<ToolCallsChunk(p, src, role, tci)>>
    ELSE (IF mapFinishReason(p.finishReason) # "null"
          THEN <<FinishChunk(p, src, tci)>> ELSE <<>>)
         \o (IF p.text # "" THEN <<ContentChunk(p, src, role)>> ELSE <<>>)

\* The frames one pull enqueues for partial p, in order, given the flags
\* sentRole (role) and toolCallIndex (tci) before the pull.
PullFrames(p, src, role, tci) ==
    IF p.fc > 0
    THEN <<ToolCallsChunk(p, src, role, tci)>>
    ELSE (IF p.text # "" THEN <<ContentChunk(p, src, role)>> ELSE <<>>)
         \o (IF mapFinishReason(p.finishReason) # "null"
             THEN <<FinishChunk(p, src, tci)>> ELSE <<>>)

\* Variant of SentRoleAfter: the flag left unset by the content branch.
SentRoleAfterToolsOnly(p, role) == role \/ p.fc > 0

\* sentRole after the pull.
SentRoleAfter(p, role) == role \/ p.fc > 0 \/ p.text # ""

\* Variant of ToolCallIndexAfter: the counter is never advanced.
ToolCallIndexAfterStuck(p, tci) == tci

\* toolCallIndex after the pull.
ToolCallIndexAfter(p, tci) == tci + p.fc

----------------------------------------------------------------------------
(* The ReadableStream default controller that createSSEStream constructs   *)
(* (new ReadableStream({pull}), default strategy: highWaterMark 1, every    *)
(* chunk of size 1).  A controller value c carries the fields pull touches. *)

HighWaterMark == 1

Ctrl ==
    [sstate |-> sstate, queue |-> queue, readPending |-> readPending,
     pullAgain |-> pullAgain, closeRequested |-> closeRequested,
     emitted |-> emitted, wake |-> "none", val |-> DoneFrame, threw |-> FALSE]

CanCloseOrEnqueue(c) == c.sstate = "readable" /\ ~c.closeRequested

\* ReadableStreamDefaultControllerShouldCallPull.
ShouldCallPull(c, isStarted) ==
    /\ CanCloseOrEnqueue(c)
    /\ isStarted
    /\ (c.readPending \/ HighWaterMark - Len(c.queue) > 0)

\* controller.enqueue(f) called inside pull (so [[pulling]] is true): a pending
\* read request is fulfilled with f, otherwise f is queued; then
\* CallPullIfNeeded records pullAgain.  A closed or errored stream throws.
CtrlEnqueue(c, f) ==
    IF c.threw THEN c
    ELSE IF ~CanCloseOrEnqueue(c) THEN [c EXCEPT !.threw = TRUE]
    ELSE LET c1 == IF c.readPending
                   THEN [c EXCEPT !.readPending = FALSE, !.wake = "value", !.val = f]
                   ELSE [c EXCEPT !.queue = Append(@, f)]
         IN [c1 EXCEPT !.emitted = Append(@, f),
                       !.pullAgain = @ \/ ShouldCallPull(c1, TRUE)]

RECURSIVE CtrlEnqueueAll(_, _)
CtrlEnqueueAll(c, fs) ==
    IF fs = <<>> THEN c ELSE CtrlEnqueueAll(CtrlEnqueue(c, Head(fs)), Tail(fs))

\* controller.close(): with an empty queue the stream closes at once and a
\* pending read is answered done; otherwise it closes when the queue drains.
CtrlClose(c) ==
    IF c.threw THEN c
    ELSE IF ~CanCloseOrEnqueue(c) THEN [c EXCEPT !.threw = TRUE]
    ELSE IF c.queue # <<>> THEN [c EXCEPT !.closeRequested = TRUE]
    ELSE [c EXCEPT !.closeRequested = TRUE, !.sstate = "closed",
                   !.readPending = FALSE,
                   !.wake = IF c.readPending THEN "done" ELSE @]

\* controller.error(err): no effect unless the stream is readable; the queue is
\* reset and a pending read is rejected.
CtrlError(c) ==
    IF c.sstate # "readable" THEN c
    ELSE [c EXCEPT !.sstate = "errored", !.queue = <<>>, !.readPending = FALSE,
                   !.wake = IF c.readPending THEN "error" ELSE @]

\* The catch clause of pull (lines 133-135).
CatchErr(c) == IF c.threw THEN CtrlError([c EXCEPT !.threw = FALSE]) ELSE c

\* Variant of PullOnDone: the stream closed without the [DONE] frame.
PullOnDoneCloseOnly(c) == CatchErr(CtrlClose(c))

\* pull, from the point stream.next() has answered done (lines 44-48).
PullOnDone(c) == CatchErr(CtrlClose(CtrlEnqueue(c, DoneFrame)))

\* pull, from the point stream.next() has answered with partial p (lines 50-132).
PullOnPartial(c, p, src) ==
    CatchErr(CtrlEnqueueAll(c, PullFrames(p, src, sentRole, toolCallIndex)))

\* Variant of PullOnThrow: the error swallowed and the stream ended normally.
PullOnThrowEndsStream(c) == CatchErr(CtrlClose(CtrlEnqueue(c, DoneFrame)))

\* pull, when stream.next() rejected (lines 133-135).
PullOnThrow(c) == CtrlError(c)

----------------------------------------------------------------------------
(* Initial state: the route has called generateContent, or has called       *)
(* generateContentStream (whose body has not run yet), wrapped it with      *)
(* createSSEStream and is about to run the pump.                            *)

InitCall ==
    /\ mode \in {"generate", "stream"}
    /\ cpc = "init"
    /\ attempt = 0
    /\ calls = 0
    /\ responses = <<>>
    /\ res = NoRes
    /\ callError = NoError
    /\ result = ""
    /\ bodyLocked = FALSE
    /\ started = FALSE
    /\ pulling = FALSE
    /\ pullAgain = FALSE
    /\ closeRequested = FALSE
    /\ sstate = "readable"
    /\ queue = <<>>
    /\ readPending = FALSE
    /\ sentRole = FALSE
    /\ toolCallIndex = 0
    /\ emitted = <<>>
    /\ nextCalls = 0
    /\ yielded = 0
    /\ ppc = IF mode = "stream" THEN "ready" ELSE "idle"
    /\ received = <<>>
    /\ gotEnd = FALSE
    /\ pumpFailed = FALSE
    /\ disconnected = FALSE

\* The route handler has been handed a POST and has not run yet.
InitRoute ==
    /\ rpc = "recv"
    /\ req = NoRequest
    /\ response = NoResponse
    /\ recorded = 0

\* A daemon whose startup resolved its credentials and which is serving.
InitServing ==
    /\ proc = "serving"
    /\ spc = "done"
    /\ auth = Authenticated("t0", "p1")
    /\ keychain = "absent"
    /\ xpc = "idle"
    /\ xtokens = NoTokens
    /\ xload = NoLookup
    /\ xwrote = FALSE
    /\ logouts = 0
    /\ logoutStatus = 0
    /\ creds = <<auth.oauth2Client, auth.projectId>>

InitQuotaRoute ==
    /\ qpc = "call"
    /\ quotas = <<>>
    /\ qnow = 0
    /\ cache = NoCache
    /\ qpending = 0
    /\ qresp = NoQuotaResponse
    /\ fetches = 0
    /\ arrivals = 0

InitQuota == InitQuotaRoute /\ buckets = <<>>

InitRequestAdapter ==
    /\ apc = "call"
    /\ messages = <<>>
    /\ gbody = NoBody

InitResponseAdapter ==
    /\ vpc = "call"
    /\ geminiResponse = [candidates |-> <<>>]
    /\ completion = NoChoice

InitAdapters == InitRequestAdapter /\ InitResponseAdapter

\* resolveAuthOptional has settled (or is not in use).
InitResolved ==
    /\ opc = "done"
    /\ osource = "none"
    /\ otrail = <<>>
    /\ owrote = FALSE

\* No query yet at GET /auth/callback.
NoQuery == [error |-> FALSE, code |-> FALSE, state |-> "none"]

InitCallback ==
    /\ issued = {}
    /\ kpc = "idle"
    /\ kquery = NoQuery
    /\ kstatus = 0
    /\ kauth = Unresolved
    /\ kexchanges = 0

\* No response body is being read.
InitLinesIdle ==
    /\ lstream = <<>>
    /\ lpos = 0
    /\ lbuffer = <<>>
    /\ llines = <<>>
    /\ lyielded = <<>>
    /\ lpc = "returned"
    /\ llocked = FALSE
    /\ lsawDone = FALSE

\* The arguments of no call.
NoArgs == [stream |-> FALSE, model |-> "none", body |-> "none"]

InitWireIdle ==
    /\ wpc = "idle"
    /\ wcall = 0
    /\ wargs = NoArgs
    /\ wheaders = "none"
    /\ wattempt = 0
    /\ wasked = <<>>
    /\ wwire = <<>>
    /\ wwaits = <<>>
    /\ wproject = "p1"

\* StreamingClient.init()
InitMenubar ==
    /\ mtask = 0
    /\ mstate = [t \in 1..MaxSends |-> "unsent"]
    /\ mscript = [t \in 1..MaxSends |-> <<>>]
    /\ mcancelled = {}
    /\ mbuffer = <<>>
    /\ mcompleted = FALSE
    /\ mcurrent = 0
    /\ mmessages = <<>>
    /\ mevents = <<>>
    /\ msends = 0

InitLate == InitCallback /\ InitLinesIdle /\ InitWireIdle /\ InitMenubar

InitSide == InitQuota /\ InitAdapters /\ InitResolved /\ InitLate

Init == InitCall /\ InitRoute /\ InitServing /\ InitSide

----------------------------------------------------------------------------
(* Glue between the generator, pull and the pump.                           *)

\* The generator body runs while a caller awaits it: always for
\* generateContent, and for generateContentStream while a next() of pull is
\* outstanding.
GenRunning == mode = "generate" \/ pulling

\* Position of the generator once next() is called on it.
ResumeGen(gpc) ==
    CASE gpc = "init" -> "auth"
      [] gpc = "suspended" -> "read"
      [] OTHER -> gpc

\* The pump's pending reader.read() settles (chat-completions.ts 61-63, 65-67).
Wake(c) ==
    /\ ppc' = CASE c.wake = "value" -> "writing"
                [] c.wake \in {"done", "error"} -> "exited"
                [] OTHER -> ppc
    /\ received' = IF c.wake = "value" THEN Append(received, c.val) ELSE received
    /\ gotEnd' = (gotEnd \/ c.wake = "done")
    /\ pumpFailed' = (pumpFailed \/ c.wake = "error")

\* ReadableStreamDefaultControllerCallPullIfNeeded on controller value c, with
\* gpc the generator's position; calling pull calls stream.next() (line 42).
CallPullIfNeeded(c, isStarted, gpc) ==
    LET should == ShouldCallPull(c, isStarted)
        begin == should /\ ~pulling
    IN /\ pulling' = (pulling \/ begin)
       /\ pullAgain' = (c.pullAgain \/ (should /\ pulling))
       /\ nextCalls' = nextCalls + (IF begin THEN 1 ELSE 0)
       /\ cpc' = IF begin THEN ResumeGen(gpc) ELSE gpc

\* The end of one pull: the controller fields pull changed are stored, the
\* pump is woken, and the fulfilment of the pull promise clears [[pulling]]
\* and pulls again if pullAgain was recorded.
PullSettle(c, gpc) ==
    LET again == c.pullAgain /\ ShouldCallPull(c, started)
    IN /\ sstate' = c.sstate
       /\ queue' = c.queue
       /\ readPending' = c.readPending
       /\ closeRequested' = c.closeRequested
       /\ emitted' = c.emitted
       /\ pullAgain' = FALSE
       /\ pulling' = again
       /\ nextCalls' = nextCalls + (IF again THEN 1 ELSE 0)
       /\ cpc' = IF again THEN ResumeGen(gpc) ELSE gpc
       /\ Wake(c)
       /\ UNCHANGED <<started, disconnected>>

\* sanitizeApiError: the message for a failed status.
sanitizeApiError(status) ==
    CASE status = 400 -> <<"Bad request to upstream API">>
      [] status \in {401, 403} -> <<"Authentication failed with upstream API">>
      [] status = 404 -> <<"Model not found">>
      [] status = 429 -> <<"Rate limit exceeded">>
      [] OTHER -> <<"Upstream API error", ToString(status)>>

\* Variant of ApiError: the text read from the failed response goes into the
\* message.
ApiErrorLeaksBody(r) ==
    [thrown |-> TRUE, status |-> r.status, code |-> 0,
     message |-> <<"Gemini API error", ToString(r.status), r.body.response>>]

\* The error thrown for a failed Response r (lines 159-165, 182-188): its
\* message is sanitizeApiError(res.status), its status res.status; the text
\* read from the response is only logged.
ApiError(r) ==
    [thrown |-> TRUE, status |-> r.status, code |-> 0,
     message |-> sanitizeApiError(r.status)]

\* new Error(m): an error with a message and no status field.
PlainError(m) == [thrown |-> TRUE, status |-> 0, code |-> 0, message |-> <<m>>]

\* The call throws the error e.  For generateContent the promise rejects;
\* for generateContentStream the rejection reaches the await in pull.
Throw(e) ==
    /\ callError' = e
    /\ IF mode = "generate"
       THEN /\ cpc' = "failed"
            /\ UNCHANGED <<ctrlVars, emitted, nextCalls, pumpVars>>
       ELSE PullSettle(PullOnThrow(Ctrl), "failed")
    /\ UNCHANGED <<mode, sentRole, toolCallIndex, yielded>>

----------------------------------------------------------------------------
(* Upstream Client: generateContent and the head of generateContentStream.  *)

Ok(status) == status >= 200 /\ status <= 299

\* The route awaits client.generateContent (chat-completions.ts line 72).
CallGenerate ==
    /\ mode = "generate"
    /\ cpc = "init"
    /\ cpc' = "auth"
    /\ UNCHANGED <<mode, attempt, calls, responses, res, callError, result, bodyLocked,
                   ctrlVars, xformVars, pumpVars>>

\* getAuthHeaders: a token is obtained, or none is and the call throws.
GetAuthHeaders ==
    /\ cpc = "auth"
    /\ GenRunning
    /\ \/ /\ cpc' = "fetch"
          /\ attempt' = 0
          /\ UNCHANGED <<mode, calls, responses, res, callError, result, bodyLocked,
                         ctrlVars, xformVars, pumpVars>>
       \/ /\ Throw(PlainError("Failed to obtain access token"))
          /\ UNCHANGED <<attempt, calls, responses, res, result, bodyLocked>>

\* Variants of FetchReturns: the bound compared one too high; a retry on
\* server errors as well.
FetchReturnsOffByOne(status, att) == status # 429 \/ att = MAX_RETRIES + 1

FetchReturnsRetries5xx(status, att) == (status # 429 /\ status < 500) \/ att = MAX_RETRIES

\* fetchWithRetry, one turn of the loop up to its return or its sleep.
FetchReturns(status, att) == status # 429 \/ att = MAX_RETRIES

\* The bodies a 200 response may carry: an envelope for generateContent, an
\* event stream (or no body at all) for generateContentStream.
BodyInputs == IF mode = "generate" THEN Bodies ELSE {""}
HasBodyInputs == IF mode = "generate" THEN {TRUE} ELSE BOOLEAN

FetchUpTo(max429) ==
    /\ cpc = "fetch"
    /\ GenRunning
    /\ calls' = calls + 1
    /\ \/ \E s \in Statuses, b \in BodyInputs, hb \in HasBodyInputs :
            /\ s = 429 => Len(responses) < max429
            /\ responses' = Append(responses, s)
            /\ IF FetchReturns(s, attempt)
               THEN /\ res' = [status |-> s, body |-> Envelope(b), hasBody |-> hb]
                    /\ cpc' = "respond"
               ELSE /\ res' = res
                    /\ cpc' = "sleep"
            /\ UNCHANGED <<mode, attempt, callError, result, bodyLocked,
                           ctrlVars, xformVars, pumpVars>>
       \/ /\ Throw(PlainError("fetch failed"))
          /\ UNCHANGED <<attempt, responses, res, result, bodyLocked>>

\* Every run of 429 answers that fetchWithRetry can see.
Fetch == FetchUpTo(MAX_RETRIES + 1)

\* The same step inside the streaming pipeline, which explores only the
\* first StreamRateLimits 429 answers.
StreamFetch == FetchUpTo(StreamRateLimits)

\* The same step of the request that runs beside the Auth Manager.
AuthFetch == FetchUpTo(AuthRateLimits)

\* fetchWithRetry: the backoff sleep is over, the loop starts its next turn
\* (or finds its bound passed).
Sleep ==
    /\ cpc = "sleep"
    /\ GenRunning
    /\ attempt' = attempt + 1
    /\ IF attempt + 1 <= MAX_RETRIES
       THEN /\ cpc' = "fetch"
            /\ UNCHANGED <<mode, calls, responses, res, callError, result, bodyLocked,
                           ctrlVars, xformVars, pumpVars>>
       ELSE \* "Retry loop exhausted" (line 130)
            /\ Throw(PlainError("Retry loop exhausted"))
            /\ UNCHANGED <<calls, responses, res, result, bodyLocked>>

\* Variant of Unwrap: the wrong field of the envelope.
UnwrapTraceId(env) == env.traceId

\* data.response of the parsed envelope.
Unwrap(env) == env.response

\* What follows fetchWithRetry: a failed response throws with its status, a
\* good one is unwrapped (generateContent) or its body reader is taken
\* (generateContentStream).
Respond ==
    /\ cpc = "respond"
    /\ GenRunning
    /\ IF ~Ok(res.status)
       THEN /\ Throw(ApiError(res))
            /\ UNCHANGED <<attempt, calls, responses, res, result, bodyLocked>>
       ELSE IF mode = "generate"
       THEN /\ result' = Unwrap(res.body)
            /\ cpc' = "returned"
            /\ UNCHANGED <<mode, attempt, calls, responses, res, callError, bodyLocked,
                           ctrlVars, xformVars, pumpVars>>
       ELSE IF ~res.hasBody
       THEN /\ Throw(PlainError("No response body for streaming request"))
            /\ UNCHANGED <<attempt, calls, responses, res, result, bodyLocked>>
       ELSE /\ bodyLocked' = TRUE
            /\ cpc' = "read"
            /\ UNCHANGED <<mode, attempt, calls, responses, res, callError, result,
                           ctrlVars, xformVars, pumpVars>>

----------------------------------------------------------------------------
(* generateContentStream's read loop, each step together with the rest of   *)
(* the pull that awaits it.                                                 *)

\* The generator yields the next parsed partial, p.
GenYieldP(p) ==
    /\ mode = "stream"
    /\ cpc = "read"
    /\ pulling
    /\ yielded < MaxPartials
    /\ yielded' = yielded + 1
    /\ sentRole' = SentRoleAfter(p, sentRole)
    /\ toolCallIndex' = ToolCallIndexAfter(p, toolCallIndex)
    /\ PullSettle(PullOnPartial(Ctrl, p, yielded + 1), "suspended")
    /\ UNCHANGED <<mode, attempt, calls, responses, res, callError, result, bodyLocked>>

GenYield == \E p \in Partials : GenYieldP(p)

\* The body is exhausted or a [DONE] line is read: the generator returns
\* through its finally clause.
GenReturn ==
    /\ mode = "stream"
    /\ cpc = "read"
    /\ pulling
    /\ bodyLocked' = FALSE
    /\ PullSettle(PullOnDone(Ctrl), "returned")
    /\ UNCHANGED <<mode, attempt, calls, responses, res, callError, result,
                   sentRole, toolCallIndex, yielded>>

\* reader.read() rejects: the generator throws through its finally clause.
GenReadError ==
    /\ mode = "stream"
    /\ cpc = "read"
    /\ pulling
    /\ bodyLocked' = FALSE
    /\ Throw(PlainError("read failed"))
    /\ UNCHANGED <<attempt, calls, responses, res, result>>

----------------------------------------------------------------------------
(* The ReadableStream's start and the pump of the chat-completions route.   *)

\* The stream's start promise fulfils: [[started]] is set and pull is called
\* if needed.
StreamStart ==
    /\ mode = "stream"
    /\ ~started
    /\ started' = TRUE
    /\ CallPullIfNeeded(Ctrl, TRUE, cpc)
    /\ UNCHANGED <<mode, attempt, calls, responses, res, callError, result, bodyLocked,
                   closeRequested, sstate, queue, readPending,
                   sentRole, toolCallIndex, emitted, yielded,
                   ppc, received, gotEnd, pumpFailed, disconnected>>

\* reader.read() of the pump (line 61).
PumpRead ==
    /\ ppc = "ready"
    /\ IF sstate = "errored"
       THEN /\ ppc' = "exited"
            /\ pumpFailed' = TRUE
            /\ UNCHANGED <<clientVars, ctrlVars, xformVars, received, gotEnd,
                           disconnected>>
       ELSE IF queue # <<>>
       THEN /\ ppc' = "writing"
            /\ received' = Append(received, Head(queue))
            /\ queue' = Tail(queue)
            /\ IF closeRequested /\ Tail(queue) = <<>>
               THEN /\ sstate' = "closed"
                    /\ UNCHANGED <<cpc, pulling, pullAgain, nextCalls>>
               ELSE /\ sstate' = sstate
                    /\ CallPullIfNeeded([Ctrl EXCEPT !.queue = Tail(queue)], started, cpc)
            /\ UNCHANGED <<mode, attempt, calls, responses, res, callError, result,
                           bodyLocked, started, closeRequested, readPending,
                           sentRole, toolCallIndex, emitted, yielded,
                           gotEnd, pumpFailed, disconnected>>
       ELSE IF sstate = "closed"
       THEN /\ ppc' = "exited"
            /\ gotEnd' = TRUE
            /\ UNCHANGED <<clientVars, ctrlVars, xformVars, received, pumpFailed,
                           disconnected>>
       ELSE /\ ppc' = "waiting"
            /\ readPending' = TRUE
            /\ CallPullIfNeeded([Ctrl EXCEPT !.readPending = TRUE], started, cpc)
            /\ UNCHANGED <<mode, attempt, calls, responses, res, callError, result,
                           bodyLocked, started, closeRequested, sstate, queue,
                           sentRole, toolCallIndex, emitted, yielded,
                           received, gotEnd, pumpFailed, disconnected>>

\* stream.write(value) settles (line 63); once the client is gone the write
\* may still resolve or may throw, which ends the pump through its finally.
PumpWrite ==
    /\ ppc = "writing"
    /\ \/ /\ ppc' = "ready"
          /\ UNCHANGED pumpFailed
       \/ /\ disconnected
          /\ ppc' = "exited"
          /\ pumpFailed' = TRUE
    /\ UNCHANGED <<clientVars, ctrlVars, xformVars, received, gotEnd, disconnected>>

\* The downstream client disconnects; this is an I/O event, so the stream has
\* started and made its first pull by then.
ClientDisconnect ==
    /\ mode = "stream"
    /\ started
    /\ ~disconnected
    /\ ppc # "exited"
    /\ disconnected' = TRUE
    /\ UNCHANGED <<clientVars, ctrlVars, xformVars, ppc, received, gotEnd, pumpFailed>>

----------------------------------------------------------------------------
(* The chat-completions route: chatCompletionsRoute's POST handler.          *)

\* formatErrorResponse(message, type): param and code default to null.
formatErrorResponse(message, type) ==
    [error |-> [message |-> message, type |-> type, param |-> "null", code |-> "null"]]

\* c.json(body, status).
Json(body, status) == [status |-> status, contentType |-> "application/json", body |-> body]

\* The Response honoStream returns: the headers set on lines 53-55 and a body
\* the pump writes into; its status is the default, 200.
EventStream == [status |-> 200, contentType |-> "text/event-stream", body |-> [stream |-> TRUE]]

\* buildRequestBody -> convertMessages: JSON.parse of a tool_call's arguments
\* string throws a SyntaxError when the string is not JSON.
buildRequestBodyThrows(r) == r.toolArgs = "invalid"

\* error.status ?? error.code ?? 500 (line 84).
CatchStatus(e) ==
    IF e.status # 0 THEN e.status ELSE IF e.code # 0 THEN e.code ELSE 500

\* error.message ?? "Internal server error" (line 85).
CatchMessage(e) == IF e.message = <<>> THEN <<"Internal server error">> ELSE e.message

\* Variant of CatchResponse: a 403 is passed through with its own status.
CatchResponsePasses403(e) ==
    LET status == CatchStatus(e)
        message == CatchMessage(e)
    IN CASE status = 429 -> Json(formatErrorResponse(message, "rate_limit_error"), 429)
         [] status = 401 -> Json(formatErrorResponse(message, "authentication_error"), 401)
         [] status = 403 -> Json(formatErrorResponse(message, "authentication_error"), 403)
         [] status = 400 -> Json(formatErrorResponse(message, "invalid_request_error"), 400)
         [] OTHER -> Json(formatErrorResponse(message, "server_error"), 500)

\* The catch clause of the handler (lines 82-102).
CatchResponse(e) ==
    LET status == CatchStatus(e)
        message == CatchMessage(e)
    IN CASE status = 429 -> Json(formatErrorResponse(message, "rate_limit_error"), 429)
         [] status \in {401, 403} ->
                Json(formatErrorResponse(message, "authentication_error"), 401)
         [] status = 400 -> Json(formatErrorResponse(message, "invalid_request_error"), 400)
         [] OTHER -> Json(formatErrorResponse(message, "server_error"), 500)

\* convertResponse(result, model), then c.json(response).
CompletionResponse(r) == Json([object |-> "chat.completion", content |-> r], 200)

\* Variant of PostChatCompletions' validation: the messages field is only
\* required to be present.
MessagesValidPresentOnly(r) == r.messages # "missing"

\* body.messages && Array.isArray(body.messages) (line 32).
MessagesValid(r) == r.messages = "array"

\* The handler from its entry to its first await on the client, or to its
\* return (lines 21-72); the credentials its client holds are left to the
\* caller.  The stream flag of the body is mode.  A body that
\* does not parse, or whose messages are not an array, has no other field
\* looked at.
PostChatCompletions ==
    /\ rpc = "recv"
    /\ \E r \in Requests :
        /\ ~r.json => (r.messages = "missing" /\ r.toolArgs = "none")
        /\ r.messages # "array" => r.toolArgs = "none"
        /\ req' = r
        /\ IF ~r.json
           THEN /\ response' = Json(formatErrorResponse(<<"Invalid JSON in request body">>,
                                                        "invalid_request_error"), 400)
                /\ rpc' = "answered"
                /\ UNCHANGED <<recorded, cpc>>
           ELSE IF ~MessagesValid(r)
           THEN /\ response' = Json(formatErrorResponse(
                                       <<"'messages' is required and must be an array">>,
                                       "invalid_request_error"), 400)
                /\ rpc' = "answered"
                /\ UNCHANGED <<recorded, cpc>>
           ELSE /\ recorded' = recorded + 1
                /\ IF buildRequestBodyThrows(r)
                   THEN \* line 41 is outside the try of line 47: the
                        \* SyntaxError leaves the handler
                        /\ rpc' = "faulted"
                        /\ UNCHANGED <<response, cpc>>
                   ELSE IF mode = "stream"
                   THEN \* generateContentStream returns a generator whose
                        \* body has not run; honoStream returns the Response
                        /\ rpc' = "streaming"
                        /\ response' = EventStream
                        /\ UNCHANGED cpc
                   ELSE \* await client.generateContent (line 72)
                        /\ rpc' = "awaiting"
                        /\ cpc' = "auth"
                        /\ UNCHANGED response
    /\ UNCHANGED <<mode, attempt, calls, responses, res, callError, result, bodyLocked,
                   ctrlVars, xformVars, pumpVars>>

\* generateContent resolved: lines 73-81.
RouteReturn ==
    /\ rpc = "awaiting"
    /\ cpc = "returned"
    /\ response' = CompletionResponse(result)
    /\ rpc' = "answered"
    /\ UNCHANGED <<clientVars, ctrlVars, xformVars, pumpVars, req, recorded, authVars>>

\* generateContent rejected: the catch clause answers.
RouteCatch ==
    /\ rpc = "awaiting"
    /\ cpc = "failed"
    /\ response' = CatchResponse(callError)
    /\ rpc' = "answered"
    /\ UNCHANGED <<clientVars, ctrlVars, xformVars, pumpVars, req, recorded, authVars>>

----------------------------------------------------------------------------
(* Auth Manager.  Startup is program.action calling resolveAuth; the code     *)
(* exchange, the logout and the gate of the chat route follow the            *)
(* specification's sections 3, 4.5 and 5 and the repository's tests of       *)
(* completeOAuthFlow and authRoutes.                                         *)

\* What reading ~/.gemini/oauth_creds.json may give resolveAuth.
CredFiles == {"unreadable", "unparseable", "noRefreshToken", "ok"}

\* Variant of LoadProjectId: the answer's ok flag is not looked at.
LoadProjectIdIgnoresNotOk(l) ==
    LET projectId == IF l.ok /\ l.backend # "null" THEN l.backend ELSE l.env
    IN IF ~l.token \/ projectId = "null"
       THEN [thrown |-> TRUE, projectId |-> "null"]
       ELSE [thrown |-> FALSE, projectId |-> projectId]

\* Variant of LoadProjectId: a missing project id is returned as it is.
LoadProjectIdNoProjectCheck(l) ==
    IF ~l.token \/ ~l.ok
    THEN [thrown |-> TRUE, projectId |-> "null"]
    ELSE [thrown |-> FALSE,
          projectId |-> IF l.backend # "null" THEN l.backend ELSE l.env]

\* loadProjectId: throws when no token is obtained, when loadCodeAssist does
\* not answer ok, and when neither the backend nor the environment names a
\* project; the backend's project wins over the environment's.
LoadProjectId(l) ==
    LET projectId == IF l.backend # "null" THEN l.backend ELSE l.env
    IN IF ~l.token \/ ~l.ok \/ projectId = "null"
       THEN [thrown |-> TRUE, projectId |-> "null"]
       ELSE [thrown |-> FALSE, projectId |-> projectId]

\* resolveAuth throws: the catch of program.action logs the message and calls
\* process.exit(1).
StartupThrow ==
    /\ spc' = "threw"
    /\ proc' = "exited"
    /\ UNCHANGED <<auth, creds>>

\* resolveAuth, from readFile to its await of oauth2Client.getAccessToken().
ResolveAuthRead ==
    /\ proc = "starting"
    /\ spc = "read"
    /\ \E f \in CredFiles :
          IF f = "ok"
          THEN /\ spc' = "token"
               /\ UNCHANGED <<proc, auth, creds>>
          ELSE StartupThrow
    /\ UNCHANGED <<clientVars, ctrlVars, xformVars, pumpVars, routeVars,
                   keychain, xpc, xtokens, xload, xwrote, logouts, logoutStatus>>

\* resolveAuth: getAccessToken settles (lines 273-281), loadProjectId starts.
ResolveAuthToken ==
    /\ proc = "starting"
    /\ spc = "token"
    /\ \/ /\ spc' = "project"
          /\ UNCHANGED <<proc, auth, creds>>
       \/ StartupThrow
    /\ UNCHANGED <<clientVars, ctrlVars, xformVars, pumpVars, routeVars,
                   keychain, xpc, xtokens, xload, xwrote, logouts, logoutStatus>>

\* resolveAuth: loadProjectId settles (line 284); on success program.action
\* builds the client and the server and starts serving.
ResolveAuthProject ==
    /\ proc = "starting"
    /\ spc = "project"
    /\ \E l \in ProjectLookups :
          LET r == LoadProjectId(l)
          IN IF r.thrown
             THEN StartupThrow
             ELSE /\ spc' = "done"
                  /\ auth' = Authenticated("t0", r.projectId)
                  /\ creds' = <<"t0", r.projectId>>
                  /\ proc' = "serving"
    /\ UNCHANGED <<clientVars, ctrlVars, xformVars, pumpVars, routeVars,
                   keychain, xpc, xtokens, xload, xwrote, logouts, logoutStatus>>

\* What oauth2Client.getToken(code) may settle with: a rejection, tokens
\* without a refresh token, or a full token record.
ExchangeResults ==
    {[rejected |-> TRUE, tokens |-> NoTokens],
     [rejected |-> FALSE, tokens |-> NoTokens]}
    \cup {[rejected |-> FALSE, tokens |-> [refresh_token |-> TRUE, id |-> t]] : t \in TokenIds}

\* writeKeychain(tokens): delete-then-add, a failing delete is ignored.
writeKeychain(k, tokens) == tokens.id

\* GET /auth/callback: completeOAuthFlow up to its project lookup.  A rejected
\* exchange or a result without refresh token throws; the handler answers 500.
ExchangeCode ==
    /\ proc = "serving"
    /\ xpc \in {"idle", "done", "failed"}
    /\ \E x \in ExchangeResults :
          /\ xtokens' = x.tokens
          /\ xpc' = IF x.rejected \/ ~x.tokens.refresh_token THEN "failed" ELSE "project"
    /\ xload' = NoLookup
    /\ xwrote' = FALSE
    /\ UNCHANGED <<clientVars, ctrlVars, xformVars, pumpVars, routeVars,
                   proc, spc, auth, keychain, logouts, logoutStatus, creds>>

\* completeOAuthFlow: loadProjectId settles.  Only then are the tokens written
\* to the secure store and the Authenticated state returned, which the handler
\* assigns to authContainer.current as a whole.
ExchangeProject ==
    /\ proc = "serving"
    /\ xpc = "project"
    /\ \E l \in ProjectLookups :
          LET r == LoadProjectId(l)
          IN /\ xload' = l
             /\ IF r.thrown
                THEN /\ xpc' = "failed"
                     /\ UNCHANGED <<auth, keychain, xwrote>>
                ELSE /\ xpc' = "done"
                     /\ keychain' = writeKeychain(keychain, xtokens)
                     /\ xwrote' = TRUE
                     /\ auth' = Authenticated(xtokens.id, r.projectId)
    /\ UNCHANGED <<clientVars, ctrlVars, xformVars, pumpVars, routeVars,
                   proc, spc, xtokens, logouts, logoutStatus, creds>>

\* Variant of LogoutResult: deleting an item that is absent fails the request.
LogoutResultFailsWhenAbsent(a, k) ==
    IF k = "absent"
    THEN [auth |-> a, keychain |-> k, status |-> 500]
    ELSE [auth |-> Unauthenticated, keychain |-> "absent", status |-> 200]

\* POST /auth/logout: deleteKeychain() (a missing item is not an error), then
\* authContainer.current is replaced by the Unauthenticated state.
LogoutResult(a, k) ==
    [auth |-> Unauthenticated, keychain |-> "absent", status |-> 200]

Logout ==
    /\ proc = "serving"
    /\ logouts < MaxLogouts
    /\ LET r == LogoutResult(auth, keychain)
       IN /\ auth' = r.auth
          /\ keychain' = r.keychain
          /\ logoutStatus' = r.status
    /\ logouts' = logouts + 1
    /\ UNCHANGED <<clientVars, ctrlVars, xformVars, pumpVars, routeVars,
                   proc, spc, xpc, xtokens, xload, xwrote, creds>>

\* The chat route's gate on the live AuthState.
GateOpen(a) == a.status = "authenticated"

\* POST /v1/chat/completions on the daemon with an AuthContainer: while
\* unauthenticated the request (here one with a valid body) is answered 401;
\* otherwise getClient takes oauth2Client and projectId of the state that is
\* live now and the handler goes on as PostChatCompletions.
AuthPost ==
    /\ proc = "serving"
    /\ rpc = "recv"
    /\ IF ~GateOpen(auth)
       THEN /\ req' = [json |-> TRUE, messages |-> "array", toolArgs |-> "none"]
            /\ response' = Json(formatErrorResponse(<<"Not authenticated">>,
                                                    "authentication_error"), 401)
            /\ rpc' = "answered"
            /\ UNCHANGED <<clientVars, ctrlVars, xformVars, pumpVars, recorded, creds>>
       ELSE /\ PostChatCompletions
            /\ creds' = <<auth.oauth2Client, auth.projectId>>
    /\ UNCHANGED <<proc, spc, auth, keychain, xpc, xtokens, xload, xwrote, logouts,
                   logoutStatus>>

----------------------------------------------------------------------------
(* Quota: fetchQuota and the GET /quota route with its cache.  resetTime and *)
(* resetDescription travel with the kept bucket and are left out.           *)

\* String.prototype.endsWith, on an id given as its pieces.
EndsWith(id, suffix) == Len(id) > 0 /\ id[Len(id)] = suffix

\* b.modelId ?? "unknown"
RawModelId(b) == IF b.modelId = NoModelId THEN <<"unknown">> ELSE b.modelId

\* Position of the entry of model in byModel, 0 when it has none.
MapIndex(byModel, model) ==
    IF \E i \in 1..Len(byModel) : byModel[i].model = model
    THEN CHOOSE i \in 1..Len(byModel) : byModel[i].model = model
    ELSE 0

\* Variant of Replaces: the highest fraction is kept.
ReplacesWithHigher(b, existing) == b.remainingFraction > existing.fraction

\* fetchQuota: the test under which a bucket replaces the entry of its model.
Replaces(b, existing) == b.remainingFraction < existing.fraction

\* fetchQuota: the buckets the loop passes over.
Skipped(raw) == EndsWith(raw, "_vertex")

\* fetchQuota: the loop over data.buckets; byModel is the Map, as the sequence
\* of its entries in insertion order.
RECURSIVE GroupByModel(_, _)
GroupByModel(bs, byModel) ==
    IF bs = <<>> THEN byModel
    ELSE LET b == Head(bs)
             raw == RawModelId(b)
             i == MapIndex(byModel, raw)
             entry == [model |-> raw, fraction |-> b.remainingFraction]
         IN  IF Skipped(raw) THEN GroupByModel(Tail(bs), byModel)
             ELSE IF i = 0 THEN GroupByModel(Tail(bs), Append(byModel, entry))
             ELSE IF Replaces(b, byModel[i])
                  THEN GroupByModel(Tail(bs), [byModel EXCEPT ![i] = entry])
                  ELSE GroupByModel(Tail(bs), byModel)

\* Math.round(fraction * 100), the fraction in thousandths.
PercentLeft(fraction) == (fraction + 5) \div 10

\* The QuotaInfo list pushed from the Map, in the Map's order.
QuotaInfos(byModel) ==
    [i \in 1..Len(byModel) |->
        [modelId |-> byModel[i].model, percentLeft |-> PercentLeft(byModel[i].fraction)]]

\* a.modelId.localeCompare(b.modelId) < 0, for the ids of the model.
ModelIdRank(id) ==
    CASE id = <<"_vertex", "n">> -> 1
      [] id = <<"m">> -> 2
      [] id = <<"m", "_vertex">> -> 3
      [] OTHER -> 4

\* Array.prototype.sort with that comparison (the ids of a list are distinct).
RECURSIVE SortByModelId(_)
SortByModelId(qs) ==
    IF qs = <<>> THEN <<>>
    ELSE LET i == CHOOSE k \in 1..Len(qs) :
                     \A l \in 1..Len(qs) : ModelIdRank(qs[k].modelId) <= ModelIdRank(qs[l].modelId)
         IN  <<qs[i]>> \o SortByModelId(SubSeq(qs, 1, i - 1) \o SubSeq(qs, i + 1, Len(qs)))

\* fetchQuota, from the parsed answer on.
QuotasOf(bs) ==
    IF Len(bs) = 0 THEN <<>> ELSE SortByModelId(QuotaInfos(GroupByModel(bs, <<>>)))

\* fetchQuota called on its own, the backend answering ok with the list buckets.
FetchQuota ==
    /\ qpc = "call"
    /\ qpc' = "returned"
    /\ quotas' = QuotasOf(buckets)
    /\ UNCHANGED <<buckets, qnow, cache, qpending, qresp, fetches, arrivals>>
    /\ UNCHANGED <<clientVars, ctrlVars, xformVars, pumpVars, routeVars, authVars, adapterVars, resolveVars, lateVars>>

\* Time passes.
Tick ==
    /\ \E d \in Advances :
          /\ qnow + d <= MaxLifetimes * CACHE_TTL
          /\ qnow' = qnow + d
    /\ UNCHANGED <<qpc, buckets, quotas, cache, qpending, qresp, fetches, arrivals>>
    /\ UNCHANGED <<clientVars, ctrlVars, xformVars, pumpVars, routeVars, authVars, adapterVars, resolveVars, lateVars>>

\* Variant of CacheFresh: an entry exactly CACHE_TTL old is still served.
CacheFreshInclusive(c, now) == c.set /\ now - c.ts <= CACHE_TTL

\* quotaRoute: cache && Date.now() - cache.ts < 60_000
CacheFresh(c, now) == c.set /\ now - c.ts < CACHE_TTL

QuotaOk(data) == [status |-> 200, quotas |-> data, error |-> FALSE]

QuotaError == [status |-> 500, quotas |-> <<>>, error |-> TRUE]

\* GET /quota arrives: answered from the cache, or fetchQuota is called and
\* the handler waits for it.
GetQuota ==
    /\ arrivals < MaxArrivals
    /\ arrivals' = arrivals + 1
    /\ IF CacheFresh(cache, qnow)
       THEN /\ qresp' = QuotaOk(cache.data)
            /\ UNCHANGED <<qpending, fetches>>
       ELSE /\ qpending < MaxPending
            /\ qpending' = qpending + 1
            /\ fetches' = fetches + 1
            /\ UNCHANGED qresp
    /\ UNCHANGED <<qpc, buckets, quotas, qnow, cache>>
    /\ UNCHANGED <<clientVars, ctrlVars, xformVars, pumpVars, routeVars, authVars, adapterVars, resolveVars, lateVars>>

\* Bucket lists the backend answers the route's fetches with.
QuotaFeeds ==
    {<<>>,
     <<[modelId |-> <<"m">>, remainingFraction |-> 504]>>,
     <<[modelId |-> <<"m">>, remainingFraction |-> 800]>>}

\* An awaited fetchQuota resolves: the handler stores the list and answers.
GetQuotaResolved ==
    /\ qpending > 0
    /\ qpending' = qpending - 1
    /\ \E bs \in QuotaFeeds :
          /\ cache' = [set |-> TRUE, data |-> QuotasOf(bs), ts |-> qnow]
          /\ qresp' = QuotaOk(QuotasOf(bs))
    /\ UNCHANGED <<qpc, buckets, quotas, qnow, fetches, arrivals>>
    /\ UNCHANGED <<clientVars, ctrlVars, xformVars, pumpVars, routeVars, authVars, adapterVars, resolveVars, lateVars>>

\* Variant of GetQuotaRejected: the failure is cached as an empty list.
GetQuotaRejectedCachesEmpty ==
    /\ qpending > 0
    /\ qpending' = qpending - 1
    /\ qresp' = QuotaError
    /\ cache' = [set |-> TRUE, data |-> <<>>, ts |-> qnow]
    /\ UNCHANGED <<qpc, buckets, quotas, qnow, fetches, arrivals>>
    /\ UNCHANGED <<clientVars, ctrlVars, xformVars, pumpVars, routeVars, authVars, adapterVars, resolveVars, lateVars>>

\* An awaited fetchQuota rejects (token, network, or an answer that is not ok).
GetQuotaRejected ==
    /\ qpending > 0
    /\ qpending' = qpending - 1
    /\ qresp' = QuotaError
    /\ UNCHANGED <<qpc, buckets, quotas, qnow, cache, fetches, arrivals>>
    /\ UNCHANGED <<clientVars, ctrlVars, xformVars, pumpVars, routeVars, authVars, adapterVars, resolveVars, lateVars>>

----------------------------------------------------------------------------
(* Request Adapter: convertMessages and buildRequestBody.  generationConfig, *)
(* tools and toolConfig are copied from request fields other than messages   *)
(* and are left out.                                                         *)

\* Array.prototype.join
RECURSIVE Join(_, _)
Join(ts, sep) ==
    IF ts = <<>> THEN <<>>
    ELSE IF Len(ts) = 1 THEN ts[1]
    ELSE ts[1] \o sep \o Join(Tail(ts), sep)

\* A string used as a condition.
Truthy(t) == t # <<>>

IsTextPart(part) == part.type = "text" /\ Truthy(part.text)

PartText(part) == part.text

RECURSIVE MapSeq(_, _)
\* The texts of a sequence of content parts.
MapSeq(ps, i) == IF i > Len(ps) THEN <<>> ELSE <<PartText(ps[i])>> \o MapSeq(ps, i + 1)

extractText(content) ==
    CASE content.kind = "null" -> <<>>
      [] content.kind = "string" -> content.text
      [] OTHER -> Join(MapSeq(SelectSeq(content.parts, IsTextPart), 1), <<"\n">>)

\* convertMessages: systemInstruction ? systemInstruction + "\n" + text : text
AppendSystem(systemInstruction, text) ==
    IF systemInstruction.defined /\ Truthy(systemInstruction.text)
    THEN Defined(systemInstruction.text \o <<"\n">> \o text)
    ELSE Defined(text)

TextPart(t) == [kind |-> "text", text |-> t]

\* convertMessages: the parts of an assistant message.
AssistantParts(msg) ==
    (IF Truthy(extractText(msg.content)) THEN <<TextPart(extractText(msg.content))>> ELSE <<>>)
    \o [i \in 1..msg.tool_calls |-> [kind |-> "functionCall", text |-> <<>>]]

\* convertMessages: the loop, acc holding systemInstruction and contents.
RECURSIVE ConvertLoop(_, _)
ConvertLoop(msgs, acc) ==
    IF msgs = <<>> THEN acc
    ELSE LET msg == Head(msgs)
             push(c) == [acc EXCEPT !.contents = Append(@, c)]
         IN  CASE msg.role = "system" ->
                    ConvertLoop(Tail(msgs),
                        [acc EXCEPT !.systemInstruction = AppendSystem(@, extractText(msg.content))])
               [] msg.role = "user" ->
                    ConvertLoop(Tail(msgs),
                        push([role |-> "user", parts |-> <<TextPart(extractText(msg.content))>>]))
               [] msg.role = "assistant" ->
                    ConvertLoop(Tail(msgs),
                        IF Len(AssistantParts(msg)) > 0
                        THEN push([role |-> "model", parts |-> AssistantParts(msg)])
                        ELSE acc)
               [] OTHER ->
                    ConvertLoop(Tail(msgs),
                        push([role |-> "user",
                              parts |-> <<[kind |-> "functionResponse",
                                           text |-> extractText(msg.content)]>>]))

convertMessages(msgs) == ConvertLoop(msgs, [systemInstruction |-> Undefined, contents |-> <<>>])

buildRequestBody(msgs) ==
    LET r == convertMessages(msgs)
    IN  [contents |-> r.contents,
         systemInstruction |->
            IF r.systemInstruction.defined /\ Truthy(r.systemInstruction.text)
            THEN Defined(r.systemInstruction.text)
            ELSE Undefined]

BuildRequestBody ==
    /\ apc = "call"
    /\ apc' = "returned"
    /\ gbody' = buildRequestBody(messages)
    /\ UNCHANGED <<messages, vpc, geminiResponse, completion>>
    /\ UNCHANGED <<clientVars, ctrlVars, xformVars, pumpVars, routeVars, authVars, quotaVars, resolveVars, lateVars>>

----------------------------------------------------------------------------
(* Response Adapter: convertResponse.  The generated ids, the stringified    *)
(* arguments and the usage counters are left out: a tool call is its name.   *)

\* FINISH_REASON_MAP and mapFinishReason of the adapter (its own copies).
FINISH_REASON_MAP_Response ==
    [r \in {"STOP", "MAX_TOKENS", "SAFETY", "RECITATION", "LANGUAGE", "BLOCKLIST",
            "PROHIBITED_CONTENT", "SPII", "MALFORMED_FUNCTION_CALL", "OTHER"} |->
        CASE r \in {"STOP", "MALFORMED_FUNCTION_CALL", "OTHER"} -> "stop"
          [] r = "MAX_TOKENS" -> "length"
          [] OTHER -> "content_filter"]

\* Variant of mapFinishReason_Response: an unlisted reason gives null.
mapFinishReason_ResponseUnlistedNull(reason) ==
    IF reason = "" THEN "null"
    ELSE IF reason \in DOMAIN FINISH_REASON_MAP_Response THEN FINISH_REASON_MAP_Response[reason]
    ELSE IF reason \in ObjectPrototypeKeys THEN Inherited
    ELSE "null"

mapFinishReason_Response(reason) ==
    IF reason = "" THEN "null"
    ELSE IF reason \in DOMAIN FINISH_REASON_MAP_Response THEN FINISH_REASON_MAP_Response[reason]
    ELSE IF reason \in ObjectPrototypeKeys THEN Inherited
    ELSE "stop"

HasText(part) == part.hasText

HasCall(part) == part.hasCall

RECURSIVE PartTexts(_)
PartTexts(ps) == IF ps = <<>> THEN <<>> ELSE <<Head(ps).text>> \o PartTexts(Tail(ps))

\* Variant of Candidate0: the last candidate is taken.
CandidateLast(gr) ==
    IF Len(gr.candidates) = 0
    THEN [parts |-> <<>>, finishReason |-> ""]
    ELSE gr.candidates[Len(gr.candidates)]

\* geminiResponse.candidates?.[0], an absent candidate read as one with no
\* parts and no finish reason.
Candidate0(gr) ==
    IF Len(gr.candidates) = 0
    THEN [parts |-> <<>>, finishReason |-> ""]
    ELSE gr.candidates[1]

convertResponse(gr) ==
    LET candidate == Candidate0(gr)
        textParts == SelectSeq(candidate.parts, HasText)
        functionCalls == SelectSeq(candidate.parts, HasCall)
        content == IF Len(textParts) > 0 THEN Str(Join(PartTexts(textParts), <<>>)) ELSE Null
    IN  [content |->
            IF Len(functionCalls) > 0 /\ (content.isNull \/ ~Truthy(content.text))
            THEN Null ELSE content,
         tool_calls |->
            IF Len(functionCalls) > 0
            THEN [defined |-> TRUE,
                  calls |-> [i \in 1..Len(functionCalls) |-> functionCalls[i].name]]
            ELSE [defined |-> FALSE, calls |-> <<>>],
         finish_reason |->
            IF Len(functionCalls) > 0 THEN "tool_calls"
            ELSE mapFinishReason_Response(candidate.finishReason)]

ConvertResponse ==
    /\ vpc = "call"
    /\ vpc' = "returned"
    /\ completion' = convertResponse(geminiResponse)
    /\ UNCHANGED <<geminiResponse, apc, messages, gbody>>
    /\ UNCHANGED <<clientVars, ctrlVars, xformVars, pumpVars, routeVars, authVars, quotaVars, resolveVars, lateVars>>

\* The partial createSSEStream.pull sees in a response: the number of its
\* function-call parts, whether its text parts join to a text, its reason.
CandidatePartial(gr) ==
    LET candidate == Candidate0(gr)
        text == Join(PartTexts(SelectSeq(candidate.parts, HasText)), <<>>)
    IN  [fc |-> Len(SelectSeq(candidate.parts, HasCall)),
         text |-> IF Truthy(text) THEN "Hi" ELSE "",
         finishReason |-> candidate.finishReason]

\* createSSEStream.pull on a stream whose first partial is geminiResponse.
PullCandidate ==
    /\ nextCalls = 0
    /\ LET p == CandidatePartial(geminiResponse)
       IN  /\ emitted' = emitted \o PullFrames(p, 1, sentRole, toolCallIndex)
           /\ sentRole' = SentRoleAfter(p, sentRole)
           /\ toolCallIndex' = ToolCallIndexAfter(p, toolCallIndex)
    /\ nextCalls' = 1
    /\ yielded' = 1
    /\ UNCHANGED <<clientVars, ctrlVars, pumpVars, routeVars, authVars, sideVars>>

----------------------------------------------------------------------------
(* Startup resolution by resolveAuthOptional, after the specification's      *)
(* section 5 and the repository's tests of it: the secure store first, the   *)
(* legacy file next, validation by a token refresh and a project lookup,     *)
(* migration of file credentials into the secure store on success.          *)

\* The token record of the legacy file, as the secure store holds it.
FileTokens == [refresh_token |-> TRUE, id |-> "tf"]

\* What the secure store may hold at startup: nothing, a record without a
\* refresh token, or a full token record.
StoredAtStartup == {"absent", "partial"} \cup TokenIds

\* readKeychain gave a record with a refresh token.
Usable(k) == k \notin {"absent", "partial"}

\* One consulted source: what it held, whether that gave credentials, and how
\* their validation was answered (NoLookup until then).
Consulted(source, held, found, lookup) ==
    [source |-> source, held |-> held, found |-> found, lookup |-> lookup]

\* getAccessToken rejected: the lookup stops before loadCodeAssist.
TokenRejections == {l \in ProjectLookups : ~l.token}

\* Settling to Unauthenticated: the daemon serves.
SettleUnauthenticated ==
    /\ opc' = "done"
    /\ auth' = Unauthenticated
    /\ proc' = "serving"
    /\ UNCHANGED <<keychain, owrote>>

\* readKeychain()
OptReadStore ==
    /\ proc = "starting"
    /\ opc = "readStore"
    /\ otrail' = <<Consulted("keychain", keychain, Usable(keychain), NoLookup)>>
    /\ IF Usable(keychain)
       THEN opc' = "validate" /\ osource' = "keychain"
       ELSE opc' = "readFile" /\ UNCHANGED osource
    /\ UNCHANGED <<proc, spc, auth, keychain, xpc, xtokens, xload, xwrote, logouts,
                   logoutStatus, creds, owrote>>
    /\ UNCHANGED <<clientVars, ctrlVars, xformVars, pumpVars, routeVars, quotaVars, adapterVars, lateVars>>

\* readFile of the legacy credentials file, its parse and refresh_token check.
OptReadFile ==
    /\ proc = "starting"
    /\ opc = "readFile"
    /\ \E f \in CredFiles :
          /\ otrail' = Append(otrail, Consulted("file", f, f = "ok", NoLookup))
          /\ IF f = "ok"
             THEN /\ opc' = "validate"
                  /\ osource' = "file"
                  /\ UNCHANGED <<auth, proc, keychain, owrote>>
             ELSE /\ SettleUnauthenticated
                  /\ UNCHANGED osource
    /\ UNCHANGED <<spc, xpc, xtokens, xload, xwrote, logouts, logoutStatus, creds>>
    /\ UNCHANGED <<clientVars, ctrlVars, xformVars, pumpVars, routeVars, quotaVars, adapterVars, lateVars>>

\* The secure store after a successful validation of credentials from source.
MigratedStore(source, k) == IF source = "file" THEN writeKeychain(k, FileTokens) ELSE k

\* Validation fails: the file is tried after the secure store, and nothing
\* after the file.
ValidationFailed ==
    IF osource = "keychain"
    THEN /\ opc' = "readFile"
         /\ UNCHANGED <<auth, proc, keychain, owrote>>
    ELSE SettleUnauthenticated

\* Validation, first half: getAccessToken on the credentials in hand.
OptValidateToken ==
    /\ proc = "starting"
    /\ opc = "validate"
    /\ \E resolved \in BOOLEAN, l \in TokenRejections :
          IF resolved
          THEN /\ opc' = "project"
               /\ UNCHANGED <<otrail, auth, proc, keychain, owrote>>
          ELSE /\ otrail' = [otrail EXCEPT ![Len(otrail)].lookup = l]
               /\ ValidationFailed
    /\ UNCHANGED <<osource, spc, xpc, xtokens, xload, xwrote, logouts, logoutStatus, creds>>
    /\ UNCHANGED <<clientVars, ctrlVars, xformVars, pumpVars, routeVars, quotaVars, adapterVars, lateVars>>

\* Validation, second half: loadProjectId; on success the state becomes
\* Authenticated and credentials read from the file are migrated.
OptValidateProject ==
    /\ proc = "starting"
    /\ opc = "project"
    /\ \E l \in {k \in ProjectLookups : k.token} :
          LET r == LoadProjectId(l)
          IN  /\ otrail' = [otrail EXCEPT ![Len(otrail)].lookup = l]
              /\ IF r.thrown
                 THEN ValidationFailed
                 ELSE /\ opc' = "done"
                      /\ keychain' = MigratedStore(osource, keychain)
                      /\ owrote' = (keychain' # keychain)
                      /\ auth' = Authenticated(IF osource = "file" THEN FileTokens.id ELSE keychain,
                                               r.projectId)
                      /\ proc' = "serving"
    /\ UNCHANGED <<osource, spc, xpc, xtokens, xload, xwrote, logouts, logoutStatus, creds>>
    /\ UNCHANGED <<clientVars, ctrlVars, xformVars, pumpVars, routeVars, quotaVars, adapterVars, lateVars>>

----------------------------------------------------------------------------
(* authRoutes: GET /auth/start and GET /auth/callback, after the tests of    *)
(* the routes.  The handler's code is not part of the sources; the order of  *)
(* its checks is the one its answers show: the error parameter, then code    *)
(* and state, then the state against the values issued.                      *)

\* The values randomBytes(32).toString("hex") may give, and one a caller made up.
StateValues == {"s1", "s2"}

ForgedState == "forged"

\* The query of a GET /auth/callback: has it an error parameter, a code, and
\* which state ("none": no state parameter).
Queries == [error : BOOLEAN, code : BOOLEAN, state : {"none", ForgedState} \cup StateValues]

\* Variant of CallbackCheck: the state is not looked up.
CallbackCheckAnyState(q, pending) ==
    IF q.error THEN 400
    ELSE IF ~q.code \/ q.state = "none" THEN 400
    ELSE 0

\* The status the handler answers before any exchange (0: none, it goes on).
CallbackCheck(q, pending) ==
    IF q.error THEN 400
    ELSE IF ~q.code \/ q.state = "none" THEN 400
    ELSE IF q.state \notin pending THEN 400
    ELSE 0

\* GET /auth/start: a fresh state value is issued with the auth_url.
AuthStart ==
    /\ proc = "serving"
    /\ \E s \in StateValues \ issued : issued' = issued \cup {s}
    /\ UNCHANGED <<kpc, kquery, kstatus, kauth, kexchanges>>
    /\ UNCHANGED <<clientVars, ctrlVars, xformVars, pumpVars, routeVars, authVars,
                   quotaVars, adapterVars, resolveVars, lineVars, wireVars, menubarVars>>

\* An issued state value expires.
StateExpire ==
    /\ \E s \in issued : issued' = issued \ {s}
    /\ UNCHANGED <<kpc, kquery, kstatus, kauth, kexchanges>>
    /\ UNCHANGED <<clientVars, ctrlVars, xformVars, pumpVars, routeVars, authVars,
                   quotaVars, adapterVars, resolveVars, lineVars, wireVars, menubarVars>>

\* GET /auth/callback with query q: answered 400 at once, or completeOAuthFlow
\* is called with the code (ExchangeCode) and awaited.  Whether the state value
\* stays usable after its use is left open.
AuthCallbackQ(q) ==
    /\ proc = "serving"
    /\ kpc = "idle"
    /\ kquery' = q
    /\ kauth' = auth
    /\ LET st == CallbackCheck(q, issued)
       IN  IF st # 0
           THEN /\ kstatus' = st
                /\ UNCHANGED <<issued, kpc, kexchanges>>
                /\ UNCHANGED <<clientVars, ctrlVars, xformVars, pumpVars, routeVars, authVars>>
           ELSE /\ kexchanges < MaxExchanges
                /\ kexchanges' = kexchanges + 1
                /\ kstatus' = 0
                /\ kpc' = "exchanging"
                /\ \E used \in BOOLEAN : issued' = IF used THEN issued \ {q.state} ELSE issued
                /\ ExchangeCode
    /\ UNCHANGED <<quotaVars, adapterVars, resolveVars, lineVars, wireVars, menubarVars>>

AuthCallback == \E q \in Queries : AuthCallbackQ(q)

\* completeOAuthFlow settled: 200 with the success page, or 500 with the message.
CallbackAnswer ==
    /\ kpc = "exchanging"
    /\ xpc \in {"done", "failed"}
    /\ kstatus' = IF xpc = "done" THEN 200 ELSE 500
    /\ kpc' = "idle"
    /\ UNCHANGED <<issued, kquery, kauth, kexchanges>>
    /\ UNCHANGED <<clientVars, ctrlVars, xformVars, pumpVars, routeVars, authVars,
                   quotaVars, adapterVars, resolveVars, lineVars, wireVars, menubarVars>>

----------------------------------------------------------------------------
(* generateContentStream: the reading of the response body.  Text is a       *)
(* sequence of pieces: "data:", " ", "\n", "[DONE]", "null", the opening of  *)
(* a JSON envelope ("{a", "{b") and its closing "}".                         *)

Space == " "

Newline == "\n"

\* The lines a response body is made of: two envelopes, an envelope cut
\* short, [DONE], an empty line, an envelope with blanks around the line and
\* inside the payload, and a JSON null.
BodyLines ==
    {<<"data:", Space, "{a", "}">>,
     <<"data:", Space, "{b", "}">>,
     <<"data:", Space, "{a">>,
     <<"data:", Space, "[DONE]">>,
     <<>>,
     <<Space, "data:", Space, Space, "{b", Space, "}", Space>>,
     <<"data:", Space, "null">>}

\* Most lines of a response body.
MaxLines == 3

\* The lines joined, each followed by a newline but the last, which has one
\* or not.
RECURSIVE JoinLines(_, _)
JoinLines(ls, closed) ==
    IF Len(ls) = 0 THEN <<>>
    ELSE IF Len(ls) = 1 THEN (IF closed THEN Append(ls[1], Newline) ELSE ls[1])
    ELSE Append(ls[1], Newline) \o JoinLines(Tail(ls), closed)

ResponseBodies ==
    {JoinLines(ls, closed) :
        ls \in UNION {[1..n -> BodyLines] : n \in 0..MaxLines}, closed \in BOOLEAN}

\* String.prototype.split("\n"): the pieces between the newlines, one more
\* than there are newlines.
RECURSIVE SplitNewline(_, _)
SplitNewline(text, piece) ==
    IF Len(text) = 0 THEN <<piece>>
    ELSE IF Head(text) = Newline THEN <<piece>> \o SplitNewline(Tail(text), <<>>)
    ELSE SplitNewline(Tail(text), Append(piece, Head(text)))

\* String.prototype.trim()
RECURSIVE TrimStart(_)
TrimStart(t) == IF Len(t) > 0 /\ Head(t) = Space THEN TrimStart(Tail(t)) ELSE t

RECURSIVE TrimEnd(_)
TrimEnd(t) ==
    IF Len(t) > 0 /\ t[Len(t)] = Space THEN TrimEnd(SubSeq(t, 1, Len(t) - 1)) ELSE t

Trim(t) == TrimEnd(TrimStart(t))

\* trimmed.startsWith("data: ")
StartsWithData(t) == Len(t) >= 2 /\ t[1] = "data:" /\ t[2] = Space

\* trimmed.slice(6)
Slice6(t) == SubSeq(t, 3, Len(t))

\* The text without the blanks JSON.parse passes over.
RECURSIVE NoBlanks(_)
NoBlanks(t) ==
    IF Len(t) = 0 THEN <<>>
    ELSE IF Head(t) = Space THEN NoBlanks(Tail(t))
    ELSE <<Head(t)>> \o NoBlanks(Tail(t))

\* JSON.parse(data) and parsed.response inside the try: the response of an
\* envelope, or a throw (a SyntaxError, or the TypeError of null.response).
ParsedResponse(data) ==
    LET j == NoBlanks(data)
    IN  IF j = <<"{a", "}">> THEN [thrown |-> FALSE, response |-> "a"]
        ELSE IF j = <<"{b", "}">> THEN [thrown |-> FALSE, response |-> "b"]
        ELSE [thrown |-> TRUE, response |-> "none"]

\* Variant of LineVerdict: a [DONE] line is passed over.
LineVerdictDoneSkipped(line) ==
    LET trimmed == Trim(line)
    IN  IF ~StartsWithData(trimmed) THEN "skip"
        ELSE IF ParsedResponse(Slice6(trimmed)).thrown THEN "skip"
        ELSE "yield"

\* Variant of LineVerdict: a payload that does not parse ends the sequence.
LineVerdictStopsAtInvalid(line) ==
    LET trimmed == Trim(line)
    IN  IF ~StartsWithData(trimmed) THEN "skip"
        ELSE IF Slice6(trimmed) = <<"[DONE]">> THEN "return"
        ELSE IF ParsedResponse(Slice6(trimmed)).thrown THEN "return"
        ELSE "yield"

\* What the loop does with one line: "return" at [DONE], "yield", or "skip".
LineVerdict(line) ==
    LET trimmed == Trim(line)
    IN  IF ~StartsWithData(trimmed) THEN "skip"
        ELSE IF Slice6(trimmed) = <<"[DONE]">> THEN "return"
        ELSE IF ParsedResponse(Slice6(trimmed)).thrown THEN "skip"
        ELSE "yield"

LineResponse(line) == ParsedResponse(Slice6(Trim(line))).response

\* Variant of KeptBuffer: nothing is kept between reads.
KeptBufferNone(lines) == <<>>

\* buffer = lines.pop() ?? ""
KeptBuffer(lines) == lines[Len(lines)]

\* const { value, done } = await reader.read() with done false: the chunk is
\* appended to the buffer, the buffer split, its last piece kept.
LineRead ==
    /\ lpc = "read"
    /\ lpos < Len(lstream)
    /\ \E n \in 1..(Len(lstream) - lpos) :
          LET lines == SplitNewline(lbuffer \o SubSeq(lstream, lpos + 1, lpos + n), <<>>)
          IN  /\ lpos' = lpos + n
              /\ lbuffer' = KeptBuffer(lines)
              /\ llines' = SubSeq(lines, 1, Len(lines) - 1)
              /\ lpc' = IF Len(lines) > 1 THEN "lines" ELSE "read"
    /\ UNCHANGED <<lstream, lyielded, llocked, lsawDone>>
    /\ UNCHANGED <<clientVars, ctrlVars, xformVars, pumpVars, routeVars, authVars,
                   quotaVars, adapterVars, resolveVars, callbackVars, wireVars, menubarVars>>

\* reader.read() with done true: break.
LineEnd ==
    /\ lpc = "read"
    /\ lpos = Len(lstream)
    /\ lpc' = "tail"
    /\ UNCHANGED <<lstream, lpos, lbuffer, llines, lyielded, llocked, lsawDone>>
    /\ UNCHANGED <<clientVars, ctrlVars, xformVars, pumpVars, routeVars, authVars,
                   quotaVars, adapterVars, resolveVars, callbackVars, wireVars, menubarVars>>

\* One turn of for (const line of lines); a return runs the finally block.
LineStep ==
    /\ lpc = "lines"
    /\ LET v == LineVerdict(Head(llines))
       IN  IF v = "return"
           THEN /\ lpc' = "returned"
                /\ lsawDone' = TRUE
                /\ llocked' = FALSE
                /\ llines' = <<>>
                /\ UNCHANGED lyielded
           ELSE /\ llines' = Tail(llines)
                /\ lpc' = IF Len(llines) > 1 THEN "lines" ELSE "read"
                /\ lyielded' = IF v = "yield"
                               THEN Append(lyielded, LineResponse(Head(llines)))
                               ELSE lyielded
                /\ UNCHANGED <<llocked, lsawDone>>
    /\ UNCHANGED <<lstream, lpos, lbuffer>>
    /\ UNCHANGED <<clientVars, ctrlVars, xformVars, pumpVars, routeVars, authVars,
                   quotaVars, adapterVars, resolveVars, callbackVars, wireVars, menubarVars>>

\* After the loop: what is left in the buffer, then the finally block.
LineTail ==
    /\ lpc = "tail"
    /\ lyielded' = IF LineVerdict(lbuffer) = "yield"
                   THEN Append(lyielded, LineResponse(lbuffer))
                   ELSE lyielded
    /\ lpc' = "returned"
    /\ llocked' = FALSE
    /\ UNCHANGED <<lstream, lpos, lbuffer, llines, lsawDone>>
    /\ UNCHANGED <<clientVars, ctrlVars, xformVars, pumpVars, routeVars, authVars,
                   quotaVars, adapterVars, resolveVars, callbackVars, wireVars, menubarVars>>

----------------------------------------------------------------------------
(* The upstream requests of a client: getAuthHeaders, wrapRequest and the    *)
(* sleeps of fetchWithRetry.  A retryDelay text is a sequence of characters. *)

DigitChars == {"0", "1", "2", "3", "4", "5", "6", "7", "8", "9"}

DigitValue(c) ==
    CASE c = "0" -> 0 [] c = "1" -> 1 [] c = "2" -> 2 [] c = "3" -> 3 [] c = "4" -> 4
      [] c = "5" -> 5 [] c = "6" -> 6 [] c = "7" -> 7 [] c = "8" -> 8 [] c = "9" -> 9

\* Math.ceil(NaN), where a number is expected.
NaN == -1

\* d.retryDelay.match(/^([\d.]+)s$/)
RetryDelayMatches(t) ==
    /\ Len(t) >= 2
    /\ t[Len(t)] = "s"
    /\ \A i \in 1..(Len(t) - 1) : t[i] \in DigitChars \cup {"."}

\* The digits a text begins with.
RECURSIVE LeadDigits(_)
LeadDigits(t) ==
    IF Len(t) > 0 /\ Head(t) \in DigitChars THEN <<Head(t)>> \o LeadDigits(Tail(t)) ELSE <<>>

RECURSIVE DigitsValue(_, _)
DigitsValue(ds, acc) ==
    IF Len(ds) = 0 THEN acc ELSE DigitsValue(Tail(ds), 10 * acc + DigitValue(Head(ds)))

\* The fraction digits as ten-thousandths (texts here have at most four).
TenThousandths(fs) ==
    DigitsValue(fs \o [i \in 1..(4 - Len(fs)) |-> "0"], 0)

\* parseFloat(match[1]): the longest leading decimal literal, in
\* ten-thousandths; NaN when the text begins with none.
ParseFloat(t) ==
    LET ip == LeadDigits(t)
        rest == SubSeq(t, Len(ip) + 1, Len(t))
        fp == IF Len(rest) > 0 /\ Head(rest) = "." THEN LeadDigits(Tail(rest)) ELSE <<>>
    IN  IF Len(ip) = 0 /\ Len(fp) = 0
        THEN [nan |-> TRUE, value |-> 0]
        ELSE [nan |-> FALSE, value |-> 10000 * DigitsValue(ip, 0) + TenThousandths(fp)]

\* The literals whose double, times 1000, lies just above the whole number
\* the decimal product is: 2.007 * 1000 is 2007.0000000000002.
ProductAbove == {<<"2", ".", "0", "0", "7">>}

\* Math.ceil(parseFloat(match[1]) * 1000)
CeilMillis(numText) ==
    LET f == ParseFloat(numText)
    IN  IF f.nan THEN NaN
        ELSE (f.value + 9) \div 10 + (IF numText \in ProductAbove THEN 1 ELSE 0)

\* The retryDelay values of the details of a 429 body.
RetryTexts ==
    {<<"0", ".", "0", "0", "1", "s">>,
     <<"2", "s">>,
     <<"0", ".", "0", "0", "0", "5", "s">>,
     <<"2", ".", "0", "0", "7", "s">>,
     <<".", "s">>,
     <<"1", ".", "2", ".", "3", "s">>,
     <<"5">>}

\* One entry of error.details: without retryDelay, with a number, or a text.
NoDelayEntry == [kind |-> "none", text |-> <<>>]

NumberEntry == [kind |-> "number", text |-> <<>>]

TextEntry(t) == [kind |-> "string", text |-> t]

\* Bodies of a 429 response: not JSON, JSON without error.details, or details.
NotJsonBody == [json |-> FALSE, hasDetails |-> FALSE, details |-> <<>>]

NoDetailsBody == [json |-> TRUE, hasDetails |-> FALSE, details |-> <<>>]

DetailsBody(ds) == [json |-> TRUE, hasDetails |-> TRUE, details |-> ds]

RetryBodies ==
    {NotJsonBody, NoDetailsBody, DetailsBody(<<NoDelayEntry>>), DetailsBody(<<NumberEntry>>),
     DetailsBody(<<TextEntry(<<"5">>), TextEntry(<<"2", "s">>)>>)}
    \cup {DetailsBody(<<TextEntry(t)>>) : t \in RetryTexts}

\* The value parseRetryDelay returns: null, or a number.
NullDelay == [isNull |-> TRUE, ms |-> 0]

\* for (const d of details): an entry without retryDelay or with a text that
\* does not match is passed over; .match on a number throws, which the catch
\* turns into null.
RECURSIVE DetailsLoop(_)
DetailsLoop(ds) ==
    IF Len(ds) = 0 THEN NullDelay
    ELSE LET d == Head(ds)
         IN  IF d.kind = "none" \/ (d.kind = "string" /\ Len(d.text) = 0)
             THEN DetailsLoop(Tail(ds))
             ELSE IF d.kind = "number" THEN NullDelay
             ELSE IF RetryDelayMatches(d.text)
             THEN [isNull |-> FALSE, ms |-> CeilMillis(SubSeq(d.text, 1, Len(d.text) - 1))]
             ELSE DetailsLoop(Tail(ds))

parseRetryDelay(responseBody) ==
    IF ~responseBody.json \/ ~responseBody.hasDetails THEN NullDelay
    ELSE DetailsLoop(responseBody.details)

\* parseRetryDelay(text) ?? 1000 * (attempt + 1)
DelayMs(responseBody, att) ==
    LET d == parseRetryDelay(responseBody)
    IN  IF d.isNull THEN 1000 * (att + 1) ELSE d.ms

\* wrapRequest(model, projectId, innerRequest)
wrapRequest(model, projectId, innerRequest) ==
    [model |-> model, project |-> projectId, request |-> innerRequest]

\* The arguments of a call, and what getAccessToken may answer: a token, no
\* token, or a rejection.
CallArgs == [stream : BOOLEAN, model : {"m1", "m2"}, body : {"q1"}]

TokenAnswers == {"k1", "k2", "null", "reject"}

\* Variant of BearerOf: the token of the client's first call is kept.
BearerOfFirstCall(asked) == asked[1]

\* getAuthHeaders: the token of the answer just received.
BearerOf(asked) == asked[Len(asked)]

\* client.generateContent(model, body) or client.generateContentStream(model, body).
WireCallUpTo(n) ==
    /\ wpc = "idle"
    /\ wcall < n
    /\ \E a \in CallArgs : wargs' = a
    /\ wcall' = wcall + 1
    /\ wpc' = "auth"
    /\ wheaders' = "none"
    /\ wattempt' = 0
    /\ wwaits' = <<>>
    /\ UNCHANGED <<wasked, wwire, wproject>>
    /\ UNCHANGED <<clientVars, ctrlVars, xformVars, pumpVars, routeVars, authVars,
                   quotaVars, adapterVars, resolveVars, callbackVars, lineVars, menubarVars>>

\* getAuthHeaders(oauth2Client)
WireAuth ==
    /\ wpc = "auth"
    /\ \E a \in TokenAnswers :
          /\ wasked' = Append(wasked, a)
          /\ IF a \in {"null", "reject"}
             THEN wpc' = "idle" /\ UNCHANGED wheaders
             ELSE wpc' = "fetch" /\ wheaders' = BearerOf(wasked')
    /\ UNCHANGED <<wcall, wargs, wattempt, wwire, wwaits, wproject>>
    /\ UNCHANGED <<clientVars, ctrlVars, xformVars, pumpVars, routeVars, authVars,
                   quotaVars, adapterVars, resolveVars, callbackVars, lineVars, menubarVars>>

\* fetchWithRetry, one turn: the request goes out; a 429 short of the bound
\* is followed by a sleep of delayMs.
WireFetchWith(bodies) ==
    /\ wpc = "fetch"
    /\ wwire' = Append(wwire, [call |-> wcall, stream |-> wargs.stream, bearer |-> wheaders,
                               body |-> wrapRequest(wargs.model, wproject, wargs.body)])
    /\ \E status \in {200, 429, 500} :
          IF FetchReturns(status, wattempt)
          THEN wpc' = "idle" /\ UNCHANGED wwaits
          ELSE \E b \in bodies :
                  /\ wwaits' = Append(wwaits, [attempt |-> wattempt, body |-> b,
                                               ms |-> DelayMs(b, wattempt)])
                  /\ wpc' = "sleep"
    /\ UNCHANGED <<wcall, wargs, wheaders, wattempt, wasked, wproject>>
    /\ UNCHANGED <<clientVars, ctrlVars, xformVars, pumpVars, routeVars, authVars,
                   quotaVars, adapterVars, resolveVars, callbackVars, lineVars, menubarVars>>

\* await sleep(delayMs) is over.
WireSleep ==
    /\ wpc = "sleep"
    /\ wattempt' = wattempt + 1
    /\ wpc' = "fetch"
    /\ UNCHANGED <<wcall, wargs, wheaders, wasked, wwire, wwaits, wproject>>
    /\ UNCHANGED <<clientVars, ctrlVars, xformVars, pumpVars, routeVars, authVars,
                   quotaVars, adapterVars, resolveVars, callbackVars, lineVars, menubarVars>>

----------------------------------------------------------------------------
(* The menubar StreamingClient.  send() and cancel() run on the main thread; *)
(* the delegate callbacks run one at a time on the session's delegate queue, *)
(* and a task that was cancelled may still deliver callbacks that were on    *)
(* their way.  A data callback brings one line: a content chunk ("tok") or   *)
(* the [DONE] frame ("done").                                                *)

\* What the daemon may send on one connection.
Scripts == {<<>>, <<"tok">>, <<"tok", "done">>, <<"done", "tok">>}

\* task?.cancel() as URLSession sees it.
Cancelled(states, t) ==
    IF t # 0 /\ states[t] = "running" THEN [states EXCEPT ![t] = "cancelling"] ELSE states

\* processBuffer: the tokens of the lines before the first [DONE], and
\* whether a [DONE] was met (the loop returns there).
RECURSIVE ProcessLines(_, _)
ProcessLines(lines, tokens) ==
    IF Len(lines) = 0 THEN [tokens |-> tokens, done |-> FALSE]
    ELSE IF Head(lines) = "done" THEN [tokens |-> tokens, done |-> TRUE]
    ELSE ProcessLines(Tail(lines), tokens + 1)

\* guard !completed else { return }
FinishGuard(completed) == ~completed

\* finishStream() called for task t with current tokens in hand.
FinishStream(t, current) ==
    IF FinishGuard(mcompleted)
    THEN /\ mcompleted' = TRUE
         /\ mmessages' = IF current > 0
                         THEN Append(mmessages, [role |-> "assistant", by |-> t])
                         ELSE mmessages
         /\ mevents' = Append(mevents, [kind |-> "complete", by |-> t,
                                        afterCancel |-> t \in mcancelled])
    ELSE UNCHANGED <<mcompleted, mmessages, mevents>>

\* send(prompt:)
MenuSend ==
    /\ msends < MaxSends
    /\ msends' = msends + 1
    /\ mtask' = msends + 1
    /\ mstate' = [Cancelled(mstate, mtask) EXCEPT ![msends + 1] = "running"]
    /\ mcancelled' = IF mtask # 0 /\ mstate[mtask] = "running"
                     THEN mcancelled \cup {mtask} ELSE mcancelled
    /\ \E sc \in Scripts : mscript' = [mscript EXCEPT ![msends + 1] = sc]
    /\ mbuffer' = <<>>
    /\ mcompleted' = FALSE
    /\ mcurrent' = 0
    /\ mmessages' = Append(mmessages, [role |-> "user", by |-> msends + 1])
    /\ UNCHANGED mevents
    /\ UNCHANGED <<clientVars, ctrlVars, xformVars, pumpVars, routeVars, authVars,
                   quotaVars, adapterVars, resolveVars, callbackVars, lineVars, wireVars>>

\* cancel()
MenuCancel ==
    /\ mtask # 0
    /\ mstate' = Cancelled(mstate, mtask)
    /\ mcancelled' = IF mstate[mtask] = "running" THEN mcancelled \cup {mtask} ELSE mcancelled
    /\ mtask' = 0
    /\ UNCHANGED <<mscript, mbuffer, mcompleted, mcurrent, mmessages, mevents, msends>>
    /\ UNCHANGED <<clientVars, ctrlVars, xformVars, pumpVars, routeVars, authVars,
                   quotaVars, adapterVars, resolveVars, callbackVars, lineVars, wireVars>>

\* urlSession(_:dataTask:didReceive data:) for task t: buffer.append(data),
\* processBuffer().  At [DONE] the buffer is left as it is.
DidReceiveData(t) ==
    /\ mstate[t] \in {"running", "cancelling"}
    /\ mscript[t] # <<>>
    /\ mscript' = [mscript EXCEPT ![t] = Tail(mscript[t])]
    /\ LET lines == Append(mbuffer, Head(mscript[t]))
           r == ProcessLines(lines, mcurrent)
       IN  /\ mcurrent' = r.tokens
           /\ IF r.done
              THEN /\ mbuffer' = lines
                   /\ FinishStream(t, r.tokens)
              ELSE /\ mbuffer' = <<>>
                   /\ UNCHANGED <<mcompleted, mmessages, mevents>>
    /\ UNCHANGED <<mtask, mstate, mcancelled, msends>>
    /\ UNCHANGED <<clientVars, ctrlVars, xformVars, pumpVars, routeVars, authVars,
                   quotaVars, adapterVars, resolveVars, callbackVars, lineVars, wireVars>>

\* The errors a task may complete with: none once all its data is delivered,
\* a failure of the connection, and NSURLErrorCancelled for a task that was
\* cancelled (one that ended before the cancel reached it completes as it
\* would have).
CompletionErrors(t) ==
    {"failed"}
    \cup (IF mscript[t] = <<>> THEN {"nil"} ELSE {})
    \cup (IF mstate[t] = "cancelling" THEN {"cancelled"} ELSE {})

\* urlSession(_:task:didCompleteWithError:) for task t.
DidComplete(t) ==
    /\ mstate[t] \in {"running", "cancelling"}
    /\ mstate' = [mstate EXCEPT ![t] = "finished"]
    /\ \E e \in CompletionErrors(t) :
          CASE e = "cancelled" -> UNCHANGED <<mcompleted, mmessages, mevents>>
            [] e = "failed" ->
                 /\ mevents' = Append(mevents, [kind |-> "error", by |-> t,
                                                afterCancel |-> t \in mcancelled])
                 /\ UNCHANGED <<mcompleted, mmessages>>
            [] OTHER -> FinishStream(t, mcurrent)
    /\ UNCHANGED <<mtask, mscript, mcancelled, mbuffer, mcurrent, msends>>
    /\ UNCHANGED <<clientVars, ctrlVars, xformVars, pumpVars, routeVars, authVars,
                   quotaVars, adapterVars, resolveVars, callbackVars, lineVars, wireVars>>

----------------------------------------------------------------------------
(* Spec: one streaming request, from createSSEStream to the end of the pump. *)

InitStream == Init /\ mode = "stream"

\* The variables outside the upstream call and its pipeline.
outerVars == <<routeVars, authVars, sideVars>>

Next ==
    \/ GetAuthHeaders /\ UNCHANGED outerVars
    \/ StreamFetch /\ UNCHANGED outerVars
    \/ Sleep /\ UNCHANGED outerVars
    \/ Respond /\ UNCHANGED outerVars
    \/ GenYield /\ UNCHANGED outerVars
    \/ GenReturn /\ UNCHANGED outerVars
    \/ GenReadError /\ UNCHANGED outerVars
    \/ StreamStart /\ UNCHANGED outerVars
    \/ PumpRead /\ UNCHANGED outerVars
    \/ PumpWrite /\ UNCHANGED outerVars
    \/ ClientDisconnect /\ UNCHANGED outerVars

Spec == InitStream /\ [][Next]_vars

(* SpecClient: one upstream call, generateContent or the head of            *)
(* generateContentStream up to the point its body reader is taken.          *)

NextClient ==
    \/ CallGenerate /\ UNCHANGED outerVars
    \/ StreamStart /\ UNCHANGED outerVars
    \/ GetAuthHeaders /\ UNCHANGED outerVars
    \/ Fetch /\ UNCHANGED outerVars
    \/ Sleep /\ UNCHANGED outerVars
    \/ Respond /\ UNCHANGED outerVars

SpecClient == Init /\ [][NextClient]_vars

(* SpecRoute: one POST /v1/chat/completions through the route handler, the   *)
(* upstream call it awaits and, for stream: true, the pipeline it starts.    *)

InCall == rpc = "awaiting" /\ UNCHANGED outerVars

InStream == rpc = "streaming" /\ UNCHANGED outerVars

NextRoute ==
    \/ PostChatCompletions /\ UNCHANGED <<authVars, sideVars>>
    \/ RouteReturn /\ UNCHANGED sideVars
    \/ RouteCatch /\ UNCHANGED sideVars
    \/ InCall /\ GetAuthHeaders
    \/ InCall /\ Fetch
    \/ InCall /\ Sleep
    \/ InCall /\ Respond
    \/ InStream /\ StreamStart
    \/ InStream /\ PumpRead
    \/ InStream /\ PumpWrite
    \/ InStream /\ GetAuthHeaders
    \/ InStream /\ StreamFetch
    \/ InStream /\ Sleep
    \/ InStream /\ Respond
    \/ InStream /\ GenYield
    \/ InStream /\ GenReturn
    \/ InStream /\ GenReadError

SpecRoute == Init /\ [][NextRoute]_vars

(* SpecAuth: the daemon from its start: startup resolution, then code        *)
(* exchanges, logouts and one non-streaming chat request, interleaved at     *)
(* their awaits.                                                             *)

InitAuth ==
    /\ InitCall
    /\ mode = "generate"
    /\ InitRoute
    /\ proc = "starting"
    /\ spc = "read"
    /\ auth = Unresolved
    /\ keychain \in {"absent", "t1"}
    /\ xpc = "idle"
    /\ xtokens = NoTokens
    /\ xload = NoLookup
    /\ xwrote = FALSE
    /\ logouts = 0
    /\ logoutStatus = 0
    /\ creds = <<"null", "null">>
    /\ InitSide

NextAuth ==
    \/ ResolveAuthRead /\ UNCHANGED sideVars
    \/ ResolveAuthToken /\ UNCHANGED sideVars
    \/ ResolveAuthProject /\ UNCHANGED sideVars
    \/ ExchangeCode /\ UNCHANGED sideVars
    \/ ExchangeProject /\ UNCHANGED sideVars
    \/ Logout /\ UNCHANGED sideVars
    \/ AuthPost /\ UNCHANGED sideVars
    \/ RouteReturn /\ UNCHANGED sideVars
    \/ RouteCatch /\ UNCHANGED sideVars
    \/ InCall /\ GetAuthHeaders
    \/ InCall /\ AuthFetch
    \/ InCall /\ Sleep
    \/ InCall /\ Respond

SpecAuth == InitAuth /\ [][NextAuth]_vars

(* SpecQuota: fetchQuota applied to a bucket list.                           *)

Idle == InitCall /\ mode = "generate" /\ InitRoute /\ InitServing

InitFetchQuota ==
    /\ Idle
    /\ InitResolved
    /\ InitLate
    /\ InitAdapters
    /\ InitQuotaRoute
    /\ buckets \in BucketLists

NextQuota == FetchQuota

SpecQuota == InitFetchQuota /\ [][NextQuota]_vars

(* SpecQuotaRoute: GET /quota requests against the clock.                    *)

NextQuotaRoute ==
    \/ Tick
    \/ GetQuota
    \/ GetQuotaResolved
    \/ GetQuotaRejected

InitGetQuota == Init /\ mode = "generate"

SpecQuotaRoute == InitGetQuota /\ [][NextQuotaRoute]_vars


(* SpecRequest: buildRequestBody applied to a message list.                   *)

InitBuildRequestBody ==
    /\ Idle
    /\ InitResolved
    /\ InitLate
    /\ InitQuota
    /\ InitResponseAdapter
    /\ apc = "call"
    /\ gbody = NoBody
    /\ messages \in MessageLists

NextRequest == BuildRequestBody

SpecRequest == InitBuildRequestBody /\ [][NextRequest]_vars

(* SpecResponse: convertResponse applied to a backend response.              *)

InitConvertResponse ==
    /\ Idle
    /\ InitResolved
    /\ InitLate
    /\ InitQuota
    /\ InitRequestAdapter
    /\ vpc = "call"
    /\ completion = NoChoice
    /\ geminiResponse \in GeminiResponses

NextResponse == ConvertResponse

SpecResponse == InitConvertResponse /\ [][NextResponse]_vars

(* SpecFinish: one backend response through both paths, convertResponse and  *)
(* the pull of createSSEStream.                                              *)

InitFinish == InitConvertResponse

NextFinish ==
    \/ ConvertResponse
    \/ PullCandidate

SpecFinish == InitFinish /\ [][NextFinish]_vars

(* SpecAuthRoutes: the OAuth routes of a serving daemon.                      *)

InitAuthRoutes ==
    /\ InitCall
    /\ mode = "generate"
    /\ InitRoute
    /\ InitQuota
    /\ InitAdapters
    /\ InitResolved
    /\ InitCallback
    /\ InitLinesIdle
    /\ InitWireIdle
    /\ InitMenubar
    /\ proc = "serving"
    /\ spc = "done"
    /\ auth \in {Unauthenticated, Authenticated("t0", "p1")}
    /\ keychain = IF auth = Unauthenticated THEN "absent" ELSE "t0"
    /\ xpc = "idle"
    /\ xtokens = NoTokens
    /\ xload = NoLookup
    /\ xwrote = FALSE
    /\ logouts = 0
    /\ logoutStatus = 0
    /\ creds = <<"null", "null">>

NextAuthRoutes ==
    \/ AuthStart
    \/ StateExpire
    \/ AuthCallback
    \/ ExchangeProject /\ UNCHANGED sideVars
    \/ CallbackAnswer

SpecAuthRoutes == InitAuthRoutes /\ [][NextAuthRoutes]_vars

(* SpecLines: generateContentStream reading one response body.               *)

InitLines ==
    /\ Idle
    /\ InitQuota
    /\ InitAdapters
    /\ InitResolved
    /\ InitCallback
    /\ InitWireIdle
    /\ InitMenubar
    /\ lstream \in ResponseBodies
    /\ lpos = 0
    /\ lbuffer = <<>>
    /\ llines = <<>>
    /\ lyielded = <<>>
    /\ lpc = "read"
    /\ llocked = TRUE
    /\ lsawDone = FALSE

NextLines ==
    \/ LineRead
    \/ LineEnd
    \/ LineStep
    \/ LineTail

SpecLines == InitLines /\ [][NextLines]_vars

(* SpecWire: the calls made on one client; SpecBackoff: the sleeps of one    *)
(* call, over the 429 bodies.                                                *)

InitWire ==
    /\ Idle
    /\ InitQuota
    /\ InitAdapters
    /\ InitResolved
    /\ InitCallback
    /\ InitLinesIdle
    /\ InitMenubar
    /\ wpc = "idle"
    /\ wcall = 0
    /\ wargs = NoArgs
    /\ wheaders = "none"
    /\ wattempt = 0
    /\ wasked = <<>>
    /\ wwire = <<>>
    /\ wwaits = <<>>
    /\ wproject \in {"p1", "p2"}

WireCall == WireCallUpTo(MaxClientCalls)

WireFetch == WireFetchWith({NotJsonBody})

NextWire ==
    \/ WireCall
    \/ WireAuth
    \/ WireFetch
    \/ WireSleep

SpecWire == InitWire /\ [][NextWire]_vars

InitBackoff == InitWire

WireOneCall == WireCallUpTo(1)

WireFetchAny == WireFetchWith(RetryBodies)

NextBackoff ==
    \/ WireOneCall
    \/ WireAuth
    \/ WireFetchAny
    \/ WireSleep

SpecBackoff == InitBackoff /\ [][NextBackoff]_vars

(* SpecMenubar: a StreamingClient, its sends and cancels and the delegate    *)
(* callbacks of its tasks.                                                    *)

InitStreamingClient ==
    /\ Idle
    /\ InitQuota
    /\ InitAdapters
    /\ InitResolved
    /\ InitCallback
    /\ InitLinesIdle
    /\ InitWireIdle
    /\ InitMenubar

NextMenubar ==
    \/ MenuSend
    \/ MenuCancel
    \/ \E t \in 1..MaxSends : DidReceiveData(t)
    \/ \E t \in 1..MaxSends : DidComplete(t)

SpecMenubar == InitStreamingClient /\ [][NextMenubar]_vars

(* SpecResolve: the daemon's start with resolveAuthOptional.                  *)

InitResolve ==
    /\ InitCall
    /\ mode = "generate"
    /\ InitRoute
    /\ InitQuota
    /\ InitAdapters
    /\ InitLate
    /\ proc = "starting"
    /\ spc = "read"
    /\ auth = Unresolved
    /\ keychain \in StoredAtStartup
    /\ xpc = "idle"
    /\ xtokens = NoTokens
    /\ xload = NoLookup
    /\ xwrote = FALSE
    /\ logouts = 0
    /\ logoutStatus = 0
    /\ creds = <<"null", "null">>
    /\ opc = "readStore"
    /\ osource = "none"
    /\ otrail = <<>>
    /\ owrote = FALSE

NextResolve ==
    \/ OptReadStore
    \/ OptReadFile
    \/ OptValidateToken
    \/ OptValidateProject

SpecResolve == InitResolve /\ [][NextResolve]_vars

----------------------------------------------------------------------------
(* Helpers for the properties.                                              *)

Range(f) == {f[i] : i \in DOMAIN f}

All429(rs, n) == \A i \in 1..n : rs[i] = 429

FailureStatus(s) == ~Ok(s) /\ s # 429

\* The emitted frames that are chunks (everything but the [DONE] frame).
IsChunk(f) == f.kind # "done"
IsDelta(f) == f.kind \in {"tool_calls", "content"}

----------------------------------------------------------------------------
(* Upstream Client properties (SpecClient).                                 *)

\* C1: one call issues at most 4 upstream requests; when the first 4
\* responses are all 429 the call fails with an error carrying status 429
\* (it neither sleeps nor fetches again), so there is never a 5th request.
C1_AtMostFourRequests ==
    /\ calls <= 4
    /\ (Len(responses) >= 4 /\ All429(responses, 4)) =>
          /\ calls = 4
          /\ cpc \in {"respond", "failed"}
          /\ cpc = "respond" => res.status = 429
          /\ cpc = "failed" => (callError.thrown /\ callError.status = 429)

C1_Witness ==
    /\ calls = 4
    /\ Len(responses) = 4
    /\ All429(responses, 4)
    /\ cpc = "failed"
    /\ callError.status = 429

\* C2: when k 429 responses (0 <= k <= 3) are followed by a 200 response,
\* generateContent has issued exactly k+1 requests, issues no more, and
\* resolves with the inner response of that 200 body's envelope.
C2_RetryThenSuccess ==
    \A k \in 0..3 :
        (/\ mode = "generate"
         /\ Len(responses) = k + 1
         /\ All429(responses, k)
         /\ responses[k + 1] = 200) =>
            /\ calls = k + 1
            /\ cpc \in {"respond", "returned"}
            /\ ~callError.thrown
            /\ cpc = "returned" => (result \in Bodies /\ res.body = Envelope(result))

C2_Witness ==
    /\ mode = "generate"
    /\ responses = <<429, 200>>
    /\ calls = 2
    /\ cpc = "returned"
    /\ result = "r2"

\* C3: a response with a failure status other than 429 is the last response
\* of its call: no request follows it, and the call fails with an error
\* carrying that status.
C3_FailureNotRetried ==
    \A i \in 1..Len(responses) :
        FailureStatus(responses[i]) =>
            /\ i = Len(responses)
            /\ calls = i
            /\ cpc \in {"respond", "failed"}
            /\ cpc = "failed" => (callError.thrown /\ callError.status = responses[i])

C3_Witness ==
    /\ responses = <<503>>
    /\ calls = 1
    /\ cpc = "failed"
    /\ callError.status = 503

----------------------------------------------------------------------------
(* Streaming Transformer properties (Spec).                                 *)

DoneCount == Cardinality({i \in 1..Len(emitted) : emitted[i] = DoneFrame})

\* C4: the [DONE] frame is produced at most once and nothing is produced
\* after it; once the upstream sequence has ended without error it is the
\* last frame produced, and it is the only one when upstream was empty.
C4_DoneIsLastAndOnce ==
    /\ DoneCount <= 1
    /\ \A i \in 1..Len(emitted) : emitted[i] = DoneFrame => i = Len(emitted)
    /\ cpc = "returned" =>
          /\ emitted # <<>>
          /\ emitted[Len(emitted)] = DoneFrame
          /\ yielded = 0 => emitted = <<DoneFrame>>

C4_Witness ==
    /\ cpc = "returned"
    /\ yielded = 2
    /\ Len(emitted) = 4
    /\ emitted[4] = DoneFrame
    /\ received = emitted
    /\ gotEnd

\* Every step of the pipeline except the client going away.
PipelineStep ==
    \/ GetAuthHeaders
    \/ StreamFetch
    \/ Sleep
    \/ Respond
    \/ GenYield
    \/ GenReturn
    \/ GenReadError
    \/ StreamStart
    \/ PumpRead
    \/ PumpWrite

\* C5: while upstream raises no error and the client stays connected, the
\* pipeline never comes to rest before the pump has read the [DONE] frame
\* and the end of the stream; in particular no read stays pending with no
\* pull left to answer it.
C5_ReadsReachDone ==
    (~callError.thrown /\ ~disconnected) =>
        /\ ~gotEnd => ENABLED PipelineStep
        /\ gotEnd => (received # <<>> /\ received[Len(received)] = DoneFrame)

\* C6: once pulling the next partial has raised, the output is errored, no
\* pull is outstanding, and no [DONE] frame has been or is ever produced.
C6_ErrorEndsWithoutDone ==
    callError.thrown =>
        /\ sstate = "errored"
        /\ ~pulling
        /\ DoneFrame \notin Range(emitted)
        /\ ~gotEnd

C6_Witness ==
    /\ callError.thrown
    /\ yielded = 2
    /\ emitted # <<>>
    /\ sstate = "errored"
    /\ pumpFailed

\* C7 as stated: the first emitted chunk carries role "assistant" and no
\* later chunk carries a role.
C7_FirstChunkHasRole ==
    \A i \in 1..Len(emitted) :
        IsChunk(emitted[i]) => (emitted[i].role <=> i = 1)

\* C7 amended: role "assistant" is carried by the first emitted delta chunk
\* (tool_calls or content) and by no other frame; a finish chunk never
\* carries it, even when it is the first chunk of the stream.
C7_FirstDeltaHasRole ==
    \A i \in 1..Len(emitted) :
        emitted[i].role <=>
            /\ IsDelta(emitted[i])
            /\ \A j \in 1..(i - 1) : ~IsDelta(emitted[j])

C7_Witness ==
    /\ Len(emitted) >= 3
    /\ emitted[1].kind = "finish"
    /\ ~emitted[1].role
    /\ emitted[2].kind = "content"
    /\ emitted[2].role
    /\ emitted[3].kind = "content"
    /\ ~emitted[3].role

\* The finish_reason the fixed table gives for a backend reason of FinishInputs.
TableReason(reason) ==
    CASE reason = "STOP" -> "stop"
      [] reason = "SAFETY" -> "content_filter"
      [] reason = "MAX_TOKENS" -> "length"
      [] OTHER -> "stop"

ToolCallBefore(fs, i) == \E j \in 1..(i - 1) : fs[j].kind = "tool_calls"

\* C8: every finish chunk a pull emits has finish_reason "tool_calls" when a
\* tool_calls chunk was emitted earlier in the stream, whatever reason the
\* partial carries, and otherwise the table's value for the partial's reason.
C8_FinishReasonOverride ==
    [][\A p \in Partials :
          GenYieldP(p) =>
              \A i \in (Len(emitted) + 1)..Len(emitted') :
                  emitted'[i].kind = "finish" =>
                      emitted'[i].finish_reason =
                          IF ToolCallBefore(emitted', i) THEN "tool_calls"
                          ELSE TableReason(p.finishReason)]_vars

C8_Witness ==
    /\ Len(emitted) = 3
    /\ emitted[1].kind = "finish"
    /\ emitted[1].finish_reason = "content_filter"
    /\ emitted[2].kind = "tool_calls"
    /\ emitted[3].kind = "finish"
    /\ emitted[3].finish_reason = "tool_calls"

Rank(kind) ==
    CASE kind = "tool_calls" -> 1
      [] kind = "content" -> 2
      [] kind = "finish" -> 3
      [] OTHER -> 4

\* C9: frames are emitted in the order of the partials they derive from, and
\* within one partial in the order tool_calls, content, finish; no two frames
\* share partial and kind; the pump receives the frames in emission order.
C9_OrderPreserved ==
    /\ \A i, j \in 1..Len(emitted) :
          (i < j /\ IsChunk(emitted[i]) /\ IsChunk(emitted[j])) =>
              \/ emitted[i].src < emitted[j].src
              \/ /\ emitted[i].src = emitted[j].src
                 /\ Rank(emitted[i].kind) < Rank(emitted[j].kind)
    /\ \A i \in 1..Len(emitted) : IsChunk(emitted[i]) => emitted[i].src \in 1..yielded
    /\ Len(received) <= Len(emitted)
    /\ received = SubSeq(emitted, 1, Len(received))
    /\ sstate # "errored" => emitted = received \o queue

C9_Witness ==
    /\ Len(emitted) = 4
    /\ emitted[1].kind = "content" /\ emitted[1].src = 1
    /\ emitted[2].kind = "content" /\ emitted[2].src = 2
    /\ emitted[3].kind = "finish" /\ emitted[3].src = 2
    /\ emitted[4] = DoneFrame
    /\ received = emitted

\* C10: once the downstream client has disconnected, pull makes no further
\* stream.next() call on the upstream generator.
C10_NoPullAfterDisconnect ==
    [][disconnected => nextCalls' = nextCalls]_vars

----------------------------------------------------------------------------
(* Route properties (SpecRoute).                                            *)

\* The body of r is {error: {message, type, param, code}}.
IsErrorEnvelope(r) ==
    /\ DOMAIN r.body = {"error"}
    /\ DOMAIN r.body.error = {"message", "type", "param", "code"}

\* The request's body fails the handler's validation.
InvalidBody(r) == ~r.json \/ r.messages # "array"

C17_FailureMapping ==
    (mode = "generate" /\ rpc = "answered" /\ callError.thrown) =>
        LET s == callError.status
            expected ==
                CASE s = 429 -> <<429, "rate_limit_error">>
                  [] s \in {401, 403} -> <<401, "authentication_error">>
                  [] s = 400 -> <<400, "invalid_request_error">>
                  [] OTHER -> <<500, "server_error">>
        IN /\ IsErrorEnvelope(response)
           /\ response.contentType = "application/json"
           /\ response.status = expected[1]
           /\ response.body.error.type = expected[2]
           /\ response.body.error.param = "null"
           /\ response.body.error.code = "null"

C17_Witness ==
    /\ mode = "generate"
    /\ rpc = "answered"
    /\ callError.thrown
    /\ callError.status = 403
    /\ response.status = 401

\* C18: for stream: true, a failure of the upstream call before any partial is
\* produced reaches the caller as the mapped status and error envelope a
\* non-streaming request gets, not as a 200 event-stream response.
C18_StreamFailureMapped ==
    (mode = "stream" /\ callError.thrown /\ yielded = 0) =>
        /\ response.contentType # "text/event-stream"
        /\ response = CatchResponse(callError)

\* C19: a request with an assistant tool_call whose arguments are not valid
\* JSON makes no upstream call and is answered by the handler with an error
\* in the error envelope; the parse failure does not leave the handler
\* unhandled.
C19_BadToolArgsAnswered ==
    (rpc # "recv" /\ ~InvalidBody(req) /\ req.toolArgs = "invalid") =>
        /\ calls = 0
        /\ rpc = "answered"
        /\ IsErrorEnvelope(response)

\* C20: the error the Upstream Client surfaces for a failed response depends
\* only on the response's status: with any other body the same error (message
\* and status) would have been thrown and the same answer given, and no part
\* of the body appears in the message.
C20_ErrorDependsOnStatusOnly ==
    (callError.thrown /\ callError.status # 0) =>
        /\ callError.status = res.status
        /\ \A b \in Bodies : ApiError([res EXCEPT !.body = Envelope(b)]) = callError
        /\ {callError.message[i] : i \in DOMAIN callError.message} \cap Bodies = {}
        /\ (mode = "generate" /\ rpc = "answered") =>
              /\ response.body.error.message = callError.message
              /\ \A b \in Bodies :
                    CatchResponse(ApiError([res EXCEPT !.body = Envelope(b)])) = response

C20_Witness ==
    /\ mode = "generate"
    /\ rpc = "answered"
    /\ callError.thrown
    /\ callError.status = 500
    /\ res.body = Envelope("r2")
    /\ response.status = 500

----------------------------------------------------------------------------
(* Auth Manager properties (SpecAuth).                                      *)

\* a is one of the two shapes of an AuthState.
IsAuthShape(a) ==
    /\ DOMAIN a = {"status", "oauth2Client", "projectId", "method"}
    /\ \/ /\ a.status = "unauthenticated"
          /\ a.oauth2Client = "null"
          /\ a.projectId = "null"
          /\ a.method = "none"
       \/ /\ a.status = "authenticated"
          /\ a.oauth2Client # "null"
          /\ a.projectId # "null"
          /\ a.method = "gemini-cli-oauth"

\* The answers to a project lookup under which no project id is resolved.
LookupFails(l) == ~l.token \/ ~l.ok \/ (l.backend = "null" /\ l.env = "null")

\* C11: startup credential resolution never raises and never ends the
\* process; whatever the credential sources hold it settles, with the daemon
\* alive, to one of the two AuthState shapes.
C11_StartupSettles ==
    /\ spc # "threw"
    /\ proc # "exited"
    /\ spc = "done" => IsAuthShape(auth)

\* C12: a code exchange whose result lacks a refresh token, or whose project
\* lookup fails, ends as a failure that leaves the secure store and the live
\* AuthState as they were; the store is written only by an exchange whose
\* project lookup has succeeded.
C12_FailedExchangeLeavesNoTrace ==
    [][/\ (xpc' # xpc /\ xpc' # "done") =>
              (auth' = auth /\ keychain' = keychain /\ ~xwrote')
       /\ (xpc' # xpc /\ xpc' = "done") =>
              (xtokens'.refresh_token /\ ~LookupFails(xload') /\ auth'.status = "authenticated")
       /\ xwrote' => (xpc' = "done" /\ xtokens'.refresh_token /\ ~LookupFails(xload'))
      ]_vars

C12_Witness ==
    /\ xpc = "failed"
    /\ xtokens.refresh_token
    /\ xload.token
    /\ ~xload.ok
    /\ xload.env = "pEnv"
    /\ ~xwrote
    /\ keychain = "absent"
    /\ auth = Unauthenticated

\* C13: every logout, from Authenticated or Unauthenticated and with the
\* stored item present or absent, succeeds and leaves the state
\* Unauthenticated and the secure store empty, so a logout repeated changes
\* nothing.
C13_LogoutClears ==
    [][logouts' # logouts =>
          (auth' = Unauthenticated /\ keychain' = "absent" /\ logoutStatus' = 200)]_vars

C13_Witness ==
    /\ logouts = 2
    /\ xpc = "idle"
    /\ logoutStatus = 200
    /\ auth = Unauthenticated
    /\ keychain = "absent"

\* C14: while the AuthState is Unauthenticated a chat request with a valid
\* body is answered 401 authentication_error, and no upstream call is made
\* (any made then would carry credentials taken before the logout).
C14_NoCallWhileUnauthenticated ==
    [][auth.status = "unauthenticated" =>
          /\ calls' = calls
          /\ (rpc = "recv" /\ rpc' # "recv") =>
                /\ response'.status = 401
                /\ IsErrorEnvelope(response')
                /\ response'.body.error.type = "authentication_error"
                /\ rpc' = "answered"
      ]_vars

\* C15: while the daemon serves, under every interleaving of exchanges,
\* logouts and a request suspended at its awaits, the live AuthState is one of
\* the two shapes, and the client and project id a request has taken from it
\* come from one state.
C15_AuthStateShapes ==
    proc = "serving" =>
        /\ IsAuthShape(auth)
        /\ (creds[1] = "null") <=> (creds[2] = "null")

C15_Witness ==
    /\ proc = "serving"
    /\ xpc = "project"
    /\ rpc = "awaiting"
    /\ cpc = "sleep"
    /\ logouts = 1
    /\ auth = Unauthenticated

----------------------------------------------------------------------------
(* Quota properties (SpecQuota, SpecQuotaRoute).                            *)

\* The model ids of a bucket list that do not end in `_vertex` (a bucket
\* without modelId counts under the id "unknown").
PlainIds(bs) == {id \in {RawModelId(bs[i]) : i \in 1..Len(bs)} : ~EndsWith(id, "_vertex")}

\* The lowest remainingFraction among the buckets of model id.
MinFraction(bs, id) ==
    CHOOSE f \in {bs[i].remainingFraction : i \in {k \in 1..Len(bs) : RawModelId(bs[k]) = id}} :
        \A i \in 1..Len(bs) : RawModelId(bs[i]) = id => f <= bs[i].remainingFraction

\* C21: fetchQuota returns exactly one entry per distinct model id that does
\* not end in `_vertex`, its percentLeft coming from the lowest
\* remainingFraction among the buckets of that id; `_vertex` buckets give
\* neither an entry nor a value.
C21_OneEntryPerModel ==
    qpc = "returned" =>
        /\ \A id \in PlainIds(buckets) :
              /\ Cardinality({k \in 1..Len(quotas) : quotas[k].modelId = id}) = 1
              /\ \A k \in 1..Len(quotas) :
                    quotas[k].modelId = id =>
                        quotas[k].percentLeft = PercentLeft(MinFraction(buckets, id))
        /\ \A k \in 1..Len(quotas) : quotas[k].modelId \in PlainIds(buckets)

C21_Witness ==
    /\ qpc = "returned"
    /\ buckets = <<[modelId |-> <<"m">>, remainingFraction |-> 800],
                   [modelId |-> <<"m">>, remainingFraction |-> 504],
                   [modelId |-> <<"m", "_vertex">>, remainingFraction |-> 506]>>
    /\ quotas = <<[modelId |-> <<"m">>, percentLeft |-> 50]>>

\* C22: a GET /quota arriving less than 60 seconds after a fetched list was
\* stored is answered with the stored list and without calling fetchQuota;
\* one arriving 60 seconds or more after the stored time (or with nothing
\* stored) calls fetchQuota; what is stored carries the time of storing.
C22_CacheServesForSixtySeconds ==
    [][/\ arrivals' = arrivals + 1 =>
             IF cache.set /\ qnow - cache.ts < 60000
             THEN fetches' = fetches /\ qresp' = QuotaOk(cache.data) /\ cache' = cache
             ELSE fetches' = fetches + 1
       /\ cache' # cache => (cache'.set /\ cache'.ts = qnow)
      ]_vars

C22_Witness ==
    /\ cache.set
    /\ qnow - cache.ts = 59999
    /\ arrivals = 2
    /\ fetches = 1
    /\ qpending = 0
    /\ qresp = QuotaOk(cache.data)
    /\ cache.data # <<>>

----------------------------------------------------------------------------
(* Request Adapter properties (SpecRequest).                                *)

IsSystem(msg) == msg.role = "system"
IsNotSystem(msg) == msg.role # "system"

RECURSIVE TextsOf(_)
\* The texts of a sequence of messages, in order.
TextsOf(msgs) ==
    IF msgs = <<>> THEN <<>> ELSE <<extractText(Head(msgs).content)>> \o TextsOf(Tail(msgs))

\* C23: for a message list with at least one system message, systemInstruction
\* is the newline-join of the texts of all system messages in their order,
\* empty texts included (an empty join may be given as no systemInstruction),
\* and the contents are those of the other messages: no system message
\* appears among them.
C23_SystemInstructionIsJoin ==
    (apc = "returned" /\ \E i \in 1..Len(messages) : IsSystem(messages[i])) =>
        /\ LET joined == Join(TextsOf(SelectSeq(messages, IsSystem)), <<"\n">>)
           IN  \/ gbody.systemInstruction = Defined(joined)
               \/ joined = <<>> /\ gbody.systemInstruction = Undefined
        /\ gbody.contents = convertMessages(SelectSeq(messages, IsNotSystem)).contents
        /\ \A k \in 1..Len(gbody.contents) : gbody.contents[k].role \in {"user", "model"}

----------------------------------------------------------------------------
(* Response Adapter properties (SpecResponse).                              *)

\* The first candidate's parts and finish reason as the response gives them.
FirstParts == IF Len(geminiResponse.candidates) = 0 THEN <<>> ELSE geminiResponse.candidates[1].parts

FirstReason ==
    IF Len(geminiResponse.candidates) = 0 THEN "" ELSE geminiResponse.candidates[1].finishReason

\* The finish-reason table: "" is the absent reason.
MappedReason(reason) ==
    CASE reason = "" -> "null"
      [] reason = "STOP" -> "stop"
      [] reason = "MAX_TOKENS" -> "length"
      [] reason \in {"SAFETY", "RECITATION", "LANGUAGE", "BLOCKLIST",
                     "PROHIBITED_CONTENT", "SPII"} -> "content_filter"
      [] reason = "MALFORMED_FUNCTION_CALL" -> "stop"
      [] OTHER -> "stop"

\* C24: with no function-call part in the first candidate, finish_reason is
\* the table's value of the backend's reason: stop, length or content_filter
\* for the listed reasons, stop for every other string, null for an absent
\* reason or an absent candidate.
C24_FinishReasonTable ==
    (vpc = "returned" /\ SelectSeq(FirstParts, HasCall) = <<>>) =>
        completion.finish_reason = MappedReason(FirstReason)

\* C25: when the first candidate has function-call parts, the result has one
\* tool call per such part in part order and finish_reason "tool_calls"
\* whatever the backend's reason, content is null unless the joined text is
\* not empty, and the candidates after the first change nothing.
C25_ToolCallsForced ==
    (vpc = "returned" /\ SelectSeq(FirstParts, HasCall) # <<>>) =>
        LET callParts == SelectSeq(FirstParts, HasCall)
            text == Join(PartTexts(SelectSeq(FirstParts, HasText)), <<>>)
        IN  /\ completion.tool_calls.defined
            /\ Len(completion.tool_calls.calls) = Len(callParts)
            /\ \A i \in 1..Len(callParts) : completion.tool_calls.calls[i] = callParts[i].name
            /\ completion.finish_reason = "tool_calls"
            /\ completion.content = IF text = <<>> THEN Null ELSE Str(text)
            /\ completion = convertResponse([candidates |-> <<geminiResponse.candidates[1]>>])

C25_Witness ==
    /\ vpc = "returned"
    /\ Len(geminiResponse.candidates) = 2
    /\ geminiResponse.candidates[1].parts =
          <<GeminiPart(TRUE, <<"H">>, FALSE, "none"), GeminiPart(FALSE, <<>>, TRUE, "g")>>
    /\ geminiResponse.candidates[1].finishReason = "STOP"
    /\ completion.finish_reason = "tool_calls"
    /\ completion.content = Str(<<"H">>)
    /\ completion.tool_calls.calls = <<"g">>

----------------------------------------------------------------------------
(* Streaming Transformer properties, per partial (Spec).                    *)

\* The frames a step has added to the emitted ones.
NewFrames == SubSeq(emitted', Len(emitted) + 1, Len(emitted'))

\* C26: a partial that carries both function-call parts and text produces two
\* delta chunks, first the tool_calls chunk and then a content chunk with the
\* partial's text; the text is never dropped.
C26_TextAfterToolCalls ==
    [][\A p \in Partials :
          (GenYieldP(p) /\ p.fc > 0 /\ p.text # "") =>
              /\ Len(NewFrames) >= 2
              /\ NewFrames[1].kind = "tool_calls"
              /\ NewFrames[2].kind = "content"
              /\ NewFrames[2].content = p.text]_vars

\* C27: every partial whose first candidate carries a finish reason produces
\* a finish chunk with an empty delta and a non-null finish_reason, whether
\* or not it also carries function-call parts or text.
C27_FinishChunkPerFinishReason ==
    [][\A p \in Partials :
          (GenYieldP(p) /\ p.finishReason # "") =>
              \E i \in 1..Len(NewFrames) :
                  /\ NewFrames[i].kind = "finish"
                  /\ NewFrames[i].finish_reason # "null"
                  /\ ~NewFrames[i].role
                  /\ NewFrames[i].content = ""
                  /\ NewFrames[i].tool_calls = <<>>]_vars

\* C28: in one stream at most one chunk has a non-null finish_reason, no
\* chunk follows it but `[DONE]`, and every chunk carrying content or
\* tool_calls has finish_reason null.
C28_OneTerminalFinishReason ==
    /\ Cardinality({i \in 1..Len(emitted) : emitted[i].finish_reason # "null"}) <= 1
    /\ \A i \in 1..Len(emitted) :
          emitted[i].finish_reason # "null" =>
              \A j \in (i + 1)..Len(emitted) : emitted[j] = DoneFrame
    /\ \A i \in 1..Len(emitted) : IsDelta(emitted[i]) => emitted[i].finish_reason = "null"

RECURSIVE ToolCallIndexes(_)
\* The index values of the tool_calls of a frame sequence, in emission order.
ToolCallIndexes(fs) ==
    IF fs = <<>> THEN <<>> ELSE Head(fs).tool_calls \o ToolCallIndexes(Tail(fs))

----------------------------------------------------------------------------
(* Startup resolution properties (SpecResolve).                             *)

----------------------------------------------------------------------------
(* GET /auth/callback.                                                       *)

\* The query carries a code and a state that GET /auth/start issued, and no error.
ValidQuery(q) == ~q.error /\ q.code /\ q.state \in issued

\* C31: GET /auth/callback calls the code exchange only for a query with a
\* code and a state issued by GET /auth/start; any other query is answered
\* 400 without an exchange and with the AuthState as it was; an exchange that
\* fails is answered 500 with the AuthState as it was when the request came.
C31_CallbackGuardsExchange ==
    [][/\ \A q \in Queries :
             AuthCallbackQ(q) =>
                IF ValidQuery(q)
                THEN kexchanges' = kexchanges + 1
                ELSE kstatus' = 400 /\ kexchanges' = kexchanges /\ auth' = auth
       /\ kexchanges' # kexchanges => \E q \in Queries : ValidQuery(q) /\ AuthCallbackQ(q)
       /\ (kpc = "exchanging" /\ kpc' = "idle" /\ xpc = "failed") =>
             (kstatus' = 500 /\ auth' = kauth)
       /\ (kstatus' = 500) => auth' = kauth']_vars

\* Two exchanges were started with issued states; the last one got tokens
\* with a refresh token, failed at the project lookup and was answered 500,
\* the state Authenticated as before.
C31_Witness ==
    /\ kpc = "idle"
    /\ kstatus = 500
    /\ kexchanges = 2
    /\ kquery.state \in StateValues
    /\ auth = Authenticated("t0", "p1")
    /\ xtokens.refresh_token
    /\ xpc = "failed"

----------------------------------------------------------------------------
(* The reading of a streamed response body.                                  *)

\* The lines of a body: what stands between its newlines.
WholeLines(text) == SplitNewline(text, <<>>)

\* A line that carries an envelope, and the response in it.
IsEnvelope(line) ==
    LET t == Trim(line)
    IN  /\ Len(t) >= 4
        /\ SubSeq(t, 1, 2) = <<"data:", Space>>
        /\ NoBlanks(SubSeq(t, 3, Len(t))) \in {<<"{a", "}">>, <<"{b", "}">>}

EnvelopeOf(line) == IF "{a" \in {line[i] : i \in 1..Len(line)} THEN "a" ELSE "b"

IsDoneLine(line) == Trim(line) = <<"data:", Space, "[DONE]">>

\* The responses of the envelope lines among lines, in order.
RECURSIVE Envelopes(_)
Envelopes(lines) ==
    IF Len(lines) = 0 THEN <<>>
    ELSE IF IsEnvelope(Head(lines)) THEN <<EnvelopeOf(Head(lines))>> \o Envelopes(Tail(lines))
    ELSE Envelopes(Tail(lines))

\* The first [DONE] line among the lines that end in a newline (0: none).
FirstDone(text) ==
    LET ls == WholeLines(text)
        ds == {i \in 1..(Len(ls) - 1) : IsDoneLine(ls[i])}
    IN  IF ds = {} THEN 0 ELSE CHOOSE i \in ds : \A j \in ds : i <= j

\* The partials of the body had it come in one read: the loop over all
\* lines but the last, then the last.
RECURSIVE LoopOver(_, _)
LoopOver(lines, sofar) ==
    IF Len(lines) = 0 THEN [returned |-> FALSE, yielded |-> sofar]
    ELSE LET v == LineVerdict(Head(lines))
         IN  IF v = "return" THEN [returned |-> TRUE, yielded |-> sofar]
             ELSE LoopOver(Tail(lines),
                           IF v = "yield" THEN Append(sofar, LineResponse(Head(lines)))
                           ELSE sofar)

WholeRead(text) ==
    LET lines == WholeLines(text)
        loop == LoopOver(SubSeq(lines, 1, Len(lines) - 1), <<>>)
        last == lines[Len(lines)]
    IN  IF loop.returned THEN loop.yielded
        ELSE IF LineVerdict(last) = "yield" THEN Append(loop.yielded, LineResponse(last))
        ELSE loop.yielded

\* C32: however the bytes of a body are cut into reads, the partials
\* generateContentStream has yielded when it returns are those it yields when
\* the whole body comes in one read.
C32_SplitsAgree == lpc = "returned" => lyielded = WholeRead(lstream)

\* A read ended inside the second data line of a body whose last line has no
\* newline; the first line's partial is out.
C32_Witness ==
    /\ lstream = JoinLines(<<(<<"data:", Space, "{a", "}">>), (<<"data:", Space, "{b", "}">>)>>, FALSE)
    /\ lpc = "read"
    /\ lbuffer = <<"data:">>
    /\ lyielded = <<"a">>

\* C33: in a body with a [DONE] line, no partial of a later line is ever
\* yielded, and the generator returns at that line with the reader released.
C33_NothingAfterDone ==
    LET d == FirstDone(lstream)
        before == Envelopes(SubSeq(WholeLines(lstream), 1, d - 1))
    IN  d # 0 =>
           /\ Len(lyielded) <= Len(before)
           /\ lyielded = SubSeq(before, 1, Len(lyielded))
           /\ lsawDone => (lpc = "returned" /\ ~llocked)
           /\ lpc = "returned" => (lsawDone /\ lyielded = before)

\* [DONE] stood between two envelopes; only the first was yielded, and reads
\* were left unmade.
C33_Witness ==
    /\ lstream = JoinLines(<<(<<"data:", Space, "{a", "}">>), (<<"data:", Space, "[DONE]">>),
                             (<<"data:", Space, "{b", "}">>)>>, TRUE)
    /\ lsawDone
    /\ lpc = "returned"
    /\ ~llocked
    /\ lyielded = <<"a">>
    /\ lpos < Len(lstream)

\* C34: in a body without a [DONE] line the partials yielded at the end are
\* those of all its envelope lines, in order: a line whose payload does not
\* parse takes none of them away and ends nothing.
C34_InvalidLineDropped ==
    (lpc = "returned" /\ FirstDone(lstream) = 0) =>
        /\ ~lsawDone
        /\ lyielded = Envelopes(WholeLines(lstream))

\* An envelope cut short stood between two envelopes; both were yielded.
C34_Witness ==
    /\ lstream = JoinLines(<<(<<"data:", Space, "{a", "}">>), (<<"data:", Space, "{a">>),
                             (<<"data:", Space, "{b", "}">>)>>, FALSE)
    /\ lpc = "returned"
    /\ lyielded = <<"a", "b">>

----------------------------------------------------------------------------
(* The requests of the Upstream Client and its waits.                        *)

\* C35: every call asks for a token once, before its first request; each
\* request carries the token its own call was answered with and the envelope
\* {model, project, request} with the project of the client; a call that got
\* no token sends nothing.
C35_FreshTokenPerCall ==
    /\ Len(wasked) = IF wpc = "auth" THEN wcall - 1 ELSE wcall
    /\ \A i \in 1..Len(wwire) :
          LET r == wwire[i]
          IN  /\ r.call <= Len(wasked)
              /\ wasked[r.call] \notin {"null", "reject"}
              /\ r.bearer = wasked[r.call]
              /\ DOMAIN r.body = {"model", "project", "request"}
              /\ r.body.project = wproject
              /\ r.call = wcall => (r.body.model = wargs.model /\ r.body.request = wargs.body)
    /\ \A c \in 1..Len(wasked) :
          wasked[c] \in {"null", "reject"} => \A i \in 1..Len(wwire) : wwire[i].call # c

\* A first call sent two requests with the token k1, a second call one with k2.
C35_Witness ==
    /\ wpc = "idle"
    /\ wasked = <<"k1", "k2">>
    /\ Len(wwire) = 3
    /\ wwire[1].call = 1 /\ wwire[2].call = 1 /\ wwire[3].call = 2
    /\ wwire[2].bearer = "k1"
    /\ wwire[3].bearer = "k2"

\* A decimal number: digits with at most one point among them.
IsDecimal(t) ==
    /\ \E i \in 1..Len(t) : t[i] \in DigitChars
    /\ \A i \in 1..Len(t) : t[i] \in DigitChars \cup {"."}
    /\ Cardinality({i \in 1..Len(t) : t[i] = "."}) <= 1

\* The texts of the details that are a number followed by "s".
DelayTexts(body) ==
    IF ~body.json \/ ~body.hasDetails THEN <<>>
    ELSE SelectSeq(body.details,
                   LAMBDA d : /\ d.kind = "string"
                              /\ Len(d.text) >= 2
                              /\ d.text[Len(d.text)] = "s"
                              /\ IsDecimal(SubSeq(d.text, 1, Len(d.text) - 1)))

\* Seconds to milliseconds, rounded up.
MillisUp(t) == (ParseFloat(SubSeq(t, 1, Len(t) - 1)).value + 9) \div 10

\* C36: the wait after the k-th 429 (k = 1, 2, 3) is the server's retry delay
\* in milliseconds, rounded up, when the body carries a number followed by
\* "s", and 1000 x k otherwise; there is no fourth wait.
C36_WaitsServerDelayOrLinear ==
    /\ Len(wwaits) <= MAX_RETRIES
    /\ \A k \in 1..Len(wwaits) :
          LET w == wwaits[k]
              ts == DelayTexts(w.body)
          IN  /\ w.attempt = k - 1
              /\ w.ms = IF Len(ts) > 0 THEN MillisUp(ts[1].text) ELSE 1000 * k

----------------------------------------------------------------------------
(* Finish reasons on the two paths.                                          *)

IsFinishFrame(f) == f.kind = "finish"

\* C37: for a response without function calls, the stream has a finish chunk
\* exactly when convertResponse gives a finish_reason other than null, and the
\* two finish reasons are equal.
C37_PathsAgreeOnFinishReason ==
    (vpc = "returned" /\ nextCalls = 1 /\ CandidatePartial(geminiResponse).fc = 0) =>
        LET fin == SelectSeq(emitted, IsFinishFrame)
        IN  /\ Len(fin) <= 1
            /\ Len(fin) = 0 <=> completion.finish_reason = "null"
            /\ Len(fin) = 1 => fin[1].finish_reason = completion.finish_reason

\* An unlisted reason after a text: "stop" on both paths.
C37_Witness ==
    /\ vpc = "returned"
    /\ nextCalls = 1
    /\ Len(geminiResponse.candidates) = 1
    /\ geminiResponse.candidates[1].finishReason = "BOGUS"
    /\ completion.finish_reason = "stop"
    /\ Len(emitted) = 2
    /\ emitted[2].kind = "finish"
    /\ emitted[2].finish_reason = "stop"

----------------------------------------------------------------------------
(* GET /quota when fetchQuota fails.                                         *)

\* C38: a request whose fetchQuota failed is answered 500 with an empty list
\* and an error and leaves the cache as it was; the cache changes only to the
\* list of a fetch that succeeded, answered 200 in the same step; a request
\* that finds no unexpired entry calls fetchQuota, whatever happened before.
C38_FailureNeverCached ==
    [][/\ (qpending' < qpending /\ qresp'.status # 200) =>
             (qresp' = [status |-> 500, quotas |-> <<>>, error |-> TRUE] /\ cache' = cache)
       /\ cache' # cache =>
             /\ qpending' = qpending - 1
             /\ cache'.set
             /\ cache'.ts = qnow
             /\ cache'.data \in {QuotasOf(bs) : bs \in QuotaFeeds}
             /\ qresp' = [status |-> 200, quotas |-> cache'.data, error |-> FALSE]
       /\ (arrivals' = arrivals + 1 /\ ~(cache.set /\ qnow - cache.ts < CACHE_TTL)) =>
             fetches' = fetches + 1]_vars

\* A first request failed and was answered 500; the second one, finding no
\* entry, has called fetchQuota again.
C38_Witness ==
    /\ arrivals = 2
    /\ fetches = 2
    /\ qpending = 1
    /\ qresp = QuotaError
    /\ ~cache.set

----------------------------------------------------------------------------
(* The callbacks of the menubar StreamingClient.                             *)

\* The callbacks of kind k dispatched for task t.
EventsOf(k, t) == SelectSeq(mevents, LAMBDA e : e.kind = k /\ e.by = t)

\* C39: for each send, onComplete is dispatched at most once and at most one
\* assistant message is appended; no onComplete and no onError is dispatched
\* for a task after cancel() was called on it.
C39_CompleteOnceCancelSilent ==
    /\ \A t \in 1..MaxSends :
          /\ Len(EventsOf("complete", t)) <= 1
          /\ Len(SelectSeq(mmessages, LAMBDA m : m.role = "assistant" /\ m.by = t)) <= 1
    /\ \A i \in 1..Len(mevents) : ~mevents[i].afterCancel

====
